---------------------------- MODULE Spec2Model ----------------------------
(***************************************************************************)
(* A model of crypto_api_chachapoly: the ChaCha20 keystream wrappers       *)
(* (ChaCha20Ietf, XChaCha20), the Poly1305 authenticator and the two AEAD  *)
(* compositions (ChachaPolyIetf, XChachaPoly) with their input validation. *)
(*                                                                         *)
(* Bytes are the integers 0..255.  A u32 is the pair <<lo, hi>> of its two *)
(* 16-bit halves (TLC's integers end at 2^31 - 1) and a u64 the sequence   *)
(* of its four 16-bit digits, least significant first.                     *)
(*                                                                         *)
(* The block counters keep their overflow behaviour but not their width:   *)
(* the u32 counter of ChaCha20Ietf ranges over 0..U32_LIMIT - 1 and the    *)
(* u64 counter of XChaCha20 over 0..U64_LIMIT - 1, and usize over          *)
(* 0..USIZE_MAX.  Every size cap is derived from these as in the source.   *)
(*                                                                         *)
(* One call of a public operation is a run of steps: the operation's       *)
(* action validates the input and sets the call up, then one action per    *)
(* loop iteration of xor and of poly1305_update follows, until the call    *)
(* returns a value or panics.  Calls do not interleave (the operations     *)
(* share no state).                                                        *)
(***************************************************************************)
EXTENDS Integers, Sequences, FiniteSets, TLC

(* ------------------------------------------------------------------ *)
(* Bounds                                                             *)
(* ------------------------------------------------------------------ *)

\* The number of values of the u32 block counter (2^32 in the source).
U32_LIMIT == 3
\* The number of values XChaCha20's u64 block counter has beyond those of the
\* u32 counter (2^64 = U32_LIMIT + U64_EXTRA in the model).
U64_EXTRA == 2
\* The bytes a caller's buffer has beyond what the operation needs, in the
\* calls that pass a larger buffer.
EXTRA_ROOM == 3

(* ------------------------------------------------------------------ *)
(* Wrapping integer operations (macros.rs)                             *)
(* ------------------------------------------------------------------ *)

H16 == 2 ^ 16

\* XOR of two 4-bit values, bit by bit.
bit(a, k) == (a \div k) % 2

xor4(a, b) ==
    ((bit(a, 1) + bit(b, 1)) % 2)
    + 2 * ((bit(a, 2) + bit(b, 2)) % 2)
    + 4 * ((bit(a, 4) + bit(b, 4)) % 2)
    + 8 * ((bit(a, 8) + bit(b, 8)) % 2)

\* A function as the tuple of its values (TLC then holds the values, not the
\* expression)
Strict(f) == f \o <<>>

XorNibble == [a \in 0..15 |-> [b \in 0..15 |-> xor4(a, b)]]

\* xor! on u8
xor8(a, b) == XorNibble[a % 16][b % 16] + (16 * XorNibble[a \div 16][b \div 16])

xor16(a, b) == xor8(a % 256, b % 256) + (256 * xor8(a \div 256, b \div 256))

\* xor! on u32
xor32(a, b) == <<xor16(a[1], b[1]), xor16(a[2], b[2])>>

\* add! on u32: wrapping_add
add32(a, b) ==
    LET lo == a[1] + b[1]
    IN  <<lo % H16, (a[2] + b[2] + (lo \div H16)) % H16>>

Pow2(k) == 2 ^ k

\* or!(shl!(x, k), shr!(x, 32 - k)) on u32, for 0 < k < 16: a left rotation
rotl32(x, k) ==
    LET m == Pow2(16 - k)
    IN  <<((x[1] % m) * Pow2(k)) + (x[2] \div m), ((x[2] % m) * Pow2(k)) + (x[1] \div m)>>

\* or!(shl!(x, 16), shr!(x, 16)) on u32
rotl32_16(x) == <<x[2], x[1]>>

\* read32_le!: little-endian decodes data[i+1 .. i+4] (i is the 0-based offset)
read32_le(data, i) ==
    <<data[i + 1] + (256 * data[i + 2]), data[i + 3] + (256 * data[i + 4])>>

\* write32_le!: the four bytes of a u32, little-endian
write32_le(w) == <<w[1] % 256, w[1] \div 256, w[2] % 256, w[2] \div 256>>

(* ------------------------------------------------------------------ *)
(* ChaCha20 core (core/chacha20.rs, chacha20_ietf.rs)                  *)
(* ------------------------------------------------------------------ *)

\* "expand 32-byte k": 0x61707865, 0x3320646e, 0x79622d32, 0x6b206574
CONSTANTS_ == << <<30821, 24944>>, <<25710, 13088>>, <<11570, 31074>>, <<25972, 27424>> >>

\* One quarterround on the words a, b, c, d of state
quarterround(state, a, b, c, d) ==
    LET a1 == add32(state[a], state[b])
        d1 == rotl32_16(xor32(state[d], a1))
        c1 == add32(state[c], d1)
        b1 == rotl32(xor32(state[b], c1), 12)
        a2 == add32(a1, b1)
        d2 == rotl32(xor32(d1, a2), 8)
        c2 == add32(c1, d2)
        b2 == rotl32(xor32(b1, c2), 7)
    IN  [state EXCEPT ![a] = a2, ![b] = b2, ![c] = c2, ![d] = d2]

\* The words the 8 quarterrounds of a double-round work on, in order; indices
\* are 1-based here, 0-based in the source
QUARTERROUNDS ==
    << <<1, 5, 9, 13>>, <<2, 6, 10, 14>>, <<3, 7, 11, 15>>, <<4, 8, 12, 16>>,
       <<1, 6, 11, 16>>, <<2, 7, 12, 13>>, <<3, 8, 9, 14>>, <<4, 5, 10, 15>> >>

RECURSIVE quarterrounds(_, _)
\* The quarterrounds of a double-round from the i-th on (the test on Len makes
\* TLC compute s before it goes on, instead of nesting what is pending)
quarterrounds(s, i) ==
    IF i > 8 \/ Len(s) # 16 THEN s
    ELSE LET q == QUARTERROUNDS[i]
         IN  quarterrounds(quarterround(s, q[1], q[2], q[3], q[4]), i + 1)

\* 8 quarterrounds (2 rounds)
double_round(s) == quarterrounds(s, 1)

RECURSIVE rounds(_, _)
\* k double-rounds over the 16 words of s
rounds(s, k) == IF k = 0 \/ Len(s) # 16 THEN s ELSE rounds(double_round(s), k - 1)

\* chacha20_rounds: 10 double-rounds
chacha20_rounds(state) == rounds(state, 10)

RECURSIVE Flatten(_)
Flatten(ss) == IF ss = <<>> THEN <<>> ELSE Head(ss) \o Flatten(Tail(ss))

\* A small block counter as a u32 word
U32Of(n) == <<n % H16, n \div H16>>

\* chacha20: the n-th ChaCha20-IETF block of 64 bytes, as ChaCha20Ietf::xor
\* computes it (the rounds are those of chacha20_rounds, written out in place)
chacha20(key, nonce, n) ==
    LET key_words   == Strict([i \in 1..8 |-> read32_le(key, (i - 1) * 4)])
        nonce_words == Strict([i \in 1..3 |-> read32_le(nonce, (i - 1) * 4)])
        init  == CONSTANTS_ \o key_words \o <<U32Of(n)>> \o nonce_words
        state == chacha20_rounds(init)
    IN  Flatten(Strict([i \in 1..16 |-> write32_le(add32(state[i], init[i]))]))

(* ------------------------------------------------------------------ *)
(* Wrapping operations on words of any width (u32: 2 digits, u64: 4)   *)
(* ------------------------------------------------------------------ *)

and4(a, b) ==
    (bit(a, 1) * bit(b, 1)) + (2 * bit(a, 2) * bit(b, 2))
    + (4 * bit(a, 4) * bit(b, 4)) + (8 * bit(a, 8) * bit(b, 8))

AndNibble == [a \in 0..15 |-> [b \in 0..15 |-> and4(a, b)]]

and8(a, b) == AndNibble[a % 16][b % 16] + (16 * AndNibble[a \div 16][b \div 16])

and16(a, b) == and8(a % 256, b % 256) + (256 * and8(a \div 256, b \div 256))

\* and!
andW(a, b) == Strict([i \in 1..Len(a) |-> and16(a[i], b[i])])

\* xor!
xorW(a, b) == Strict([i \in 1..Len(a) |-> xor16(a[i], b[i])])

\* or!: a | b = (a ^ b) + (a & b), digit by digit
orW(a, b) == Strict([i \in 1..Len(a) |-> xor16(a[i], b[i]) + and16(a[i], b[i])])

RECURSIVE AddCarry(_, _, _)
AddCarry(a, b, c) ==
    IF a = <<>> THEN <<>>
    ELSE LET t == a[1] + b[1] + c
         IN  <<t % H16>> \o AddCarry(Tail(a), Tail(b), t \div H16)

\* add!: wrapping_add of two words of the same width
addW(a, b) == AddCarry(a, b, 0)

\* The one's complement of a word
notW(a) == Strict([i \in 1..Len(a) |-> (H16 - 1) - a[i]])

Zero(w) == Strict([i \in 1..w |-> 0])

One(w) == Strict([i \in 1..w |-> IF i = 1 THEN 1 ELSE 0])

\* neg!: wrapping_neg
negW(a) == addW(notW(a), One(Len(a)))

\* sub!: wrapping_sub
subW(a, b) == addW(a, negW(b))

\* Digit i (1-based) of a word, 0 beyond its width
Digit(x, i) == IF i >= 1 /\ i <= Len(x) THEN x[i] ELSE 0

\* shr!: wrapping_shr by k bits, 0 <= k < 16 * Len(x)
shrW(x, k) ==
    LET q == k \div 16
        r == k % 16
    IN  Strict([i \in 1..Len(x) |->
            (Digit(x, i + q) \div Pow2(r))
            + ((Digit(x, i + q + 1) % Pow2(r)) * Pow2(16 - r))])

\* shl!: wrapping_shl by k bits, 0 <= k < 16 * Len(x)
shlW(x, k) ==
    LET q == k \div 16
        r == k % 16
    IN  Strict([i \in 1..Len(x) |->
            ((Digit(x, i - q) % Pow2(16 - r)) * Pow2(r))
            + (Digit(x, i - q - 1) \div Pow2(16 - r))])

\* `as u64` of a u32
AsU64(x) == x \o <<0, 0>>

\* `as u32` of a u64
AsU32(x) == <<x[1], x[2]>>

\* The product of two 16-bit digits as <<low digit, high digit>>
Mul16(a, b) ==
    IF a = 0 \/ b = 0 THEN <<0, 0>>
    ELSE LET p0 == a * (b % 256)
             p1 == a * (b \div 256)
             t  == p0 + ((p1 % 256) * 256)
         IN  <<t % H16, (t \div H16) + (p1 \div 256)>>

RECURSIVE ColSum(_, _, _, _)
\* Column k (1-based) of the schoolbook product of the words a and b: the low
\* digits of the products of weight k and the high digits of those of weight k - 1
ColSum(a, b, k, i) ==
    IF i > k THEN 0
    ELSE Mul16(a[i], b[k + 1 - i])[1]
         + (IF i < k THEN Mul16(a[i], b[k - i])[2] ELSE 0)
         + ColSum(a, b, k, i + 1)

RECURSIVE Normalise(_, _)
\* Carry-propagates digit columns into digits, dropping the carry out of the last
Normalise(cols, c) ==
    IF cols = <<>> THEN <<>>
    ELSE LET t == cols[1] + c
         IN  <<t % H16>> \o Normalise(Tail(cols), t \div H16)

\* mul!: wrapping_mul of two words of the same width
mulW(a, b) == Normalise(Strict([k \in 1..Len(a) |-> ColSum(a, b, k, 1)]), 0)

\* A small natural number as a word of w digits
Lit(n, w) == Strict([i \in 1..w |-> IF i = 1 THEN n % H16 ELSE IF i = 2 THEN n \div H16 ELSE 0])

\* A u32 from its two halves, as the source writes it: 0xHHHHLLLL
Hex32(hi, lo) == <<lo, hi>>

(* ------------------------------------------------------------------ *)
(* Poly1305 (poly1305.rs, core/poly1305.rs)                            *)
(* ------------------------------------------------------------------ *)

\* poly1305_init: r (clamped), s and the multipliers u of a 32-byte key
poly1305_init(key) ==
    LET r == << andW(shrW(read32_le(key, 0), 0), Hex32(1023, 65535)),
                andW(shrW(read32_le(key, 3), 2), Hex32(1023, 65283)),
                andW(shrW(read32_le(key, 6), 4), Hex32(1023, 49407)),
                andW(shrW(read32_le(key, 9), 6), Hex32(1008, 16383)),
                andW(shrW(read32_le(key, 12), 8), Hex32(15, 65535)) >>
        s == << read32_le(key, 16), read32_le(key, 20),
                read32_le(key, 24), read32_le(key, 28) >>
        u == << Zero(2), mulW(r[2], Lit(5, 2)), mulW(r[3], Lit(5, 2)),
                mulW(r[4], Lit(5, 2)), mulW(r[5], Lit(5, 2)) >>
    IN  [r |-> r, s |-> s, u |-> u]

\* m!: mul!(a as u64, b as u64)
m(a, b) == mulW(AsU64(a), AsU64(b))

add5(a, b, c, d, e) == addW(addW(addW(addW(a, b), c), d), e)

MASK26 == Hex32(1023, 65535)

\* The 16-byte scratch buffer of one block: zero-padded when short, with the
\* 0x01 byte after a short last block
poly1305_buf(block, is_last) ==
    LET buf_len == Len(block)
    IN  Strict([i \in 1..16 |->
            IF i <= buf_len THEN block[i]
            ELSE IF is_last /\ i = buf_len + 1 THEN 1 ELSE 0])

\* The block decoded into the accumulator, with the "high bit" where it applies
poly1305_decode(a, buf, short_last) ==
    << addW(a[1], andW(shrW(read32_le(buf, 0), 0), MASK26)),
       addW(a[2], andW(shrW(read32_le(buf, 3), 2), MASK26)),
       addW(a[3], andW(shrW(read32_le(buf, 6), 4), MASK26)),
       addW(a[4], andW(shrW(read32_le(buf, 9), 6), MASK26)),
       IF short_last
       THEN addW(a[5], orW(shrW(read32_le(buf, 12), 8), Hex32(0, 0)))
       ELSE addW(a[5], orW(shrW(read32_le(buf, 12), 8), Hex32(256, 0))) >>

\* "Multiply": the five u64 sums w of the products of a with r and u
poly1305_multiply(a, r, u) ==
    << add5(m(a[1], r[1]), m(a[2], u[5]), m(a[3], u[4]), m(a[4], u[3]), m(a[5], u[2])),
       add5(m(a[1], r[2]), m(a[2], r[1]), m(a[3], u[5]), m(a[4], u[4]), m(a[5], u[3])),
       add5(m(a[1], r[3]), m(a[2], r[2]), m(a[3], r[1]), m(a[4], u[5]), m(a[5], u[4])),
       add5(m(a[1], r[4]), m(a[2], r[3]), m(a[3], r[2]), m(a[4], r[1]), m(a[5], u[5])),
       add5(m(a[1], r[5]), m(a[2], r[4]), m(a[3], r[3]), m(a[4], r[2]), m(a[5], r[1])) >>

RECURSIVE poly1305_carry(_, _, _)
\* "Perform some modular reduction": from w[i] on, the carry c of the previous
\* word is added, the low 26 bits kept; gives the five limbs and the last carry
poly1305_carry(w, c, i) ==
    IF i > 5 THEN <<c>>
    ELSE LET x == addW(w[i], c)
         IN  <<andW(AsU32(x), MASK26)>> \o poly1305_carry(w, shrW(x, 26), i + 1)

\* A faulty end of the block: the top carry comes back to limb 0, but limb 0
\* hands no carry on to limb 1
poly1305_wrap_once(t) ==
    <<addW(t[1], mulW(AsU32(t[6]), Lit(5, 2))), t[2], t[3], t[4], t[5]>>

\* The last carry times 5 added to limb 0, and the carry of that to limb 1
poly1305_wrap(t) ==
    LET y0 == addW(t[1], mulW(AsU32(t[6]), Lit(5, 2)))
    IN  <<andW(y0, MASK26), addW(t[2], shrW(y0, 26)), t[3], t[4], t[5]>>

\* One iteration of poly1305_update's loop: the accumulator after one block
poly1305_block(a, r, u, block, is_last) ==
    poly1305_wrap(
        poly1305_carry(
            poly1305_multiply(
                poly1305_decode(a, poly1305_buf(block, is_last),
                                Len(block) < 16 /\ is_last),
                r, u),
            Zero(4), 1))

RECURSIVE poly1305_update(_, _, _, _, _)
\* poly1305_update: the accumulator after all of data, 16 bytes per iteration
poly1305_update(a, r, u, data, is_last) ==
    IF data = <<>> \/ Len(a) # 5 THEN a
    ELSE LET buf_len == IF Len(data) < 16 THEN Len(data) ELSE 16
         IN  poly1305_update(
                 poly1305_block(a, r, u, SubSeq(data, 1, buf_len), is_last),
                 r, u, SubSeq(data, buf_len + 1, Len(data)), is_last)

\* A faulty gt! that takes the sign of b - a alone
gt_sign(a, b) == shrW(subW(b, a), 31)

\* gt!: 1 if a > b, else 0
gt(a, b) ==
    LET c == subW(b, a)
    IN  shrW(xorW(c, andW(xorW(a, b), xorW(a, c))), 31)

\* not_bool!
not_bool(a) == xorW(a, One(2))

\* eq!: 1 if a = b, else 0
eq(a, b) ==
    LET q == xorW(a, b)
    IN  not_bool(shrW(orW(q, negW(q)), 31))

\* mux_bool!: x if c = 1, y if c = 0
mux_bool(c, x, y) == xorW(y, andW(negW(c), xorW(x, y)))

RECURSIVE finish_reduce(_, _, _, _)
\* The loop `for i in 0..5` of poly1305_finish that adds 5 and keeps the sum
\* where mux is set; i is 1-based
finish_reduce(a, mux, c, i) ==
    IF i > 5 THEN a
    ELSE LET t == addW(a[i], c)
         IN  finish_reduce([a EXCEPT ![i] = mux_bool(mux, andW(t, MASK26), a[i])],
                           mux, shrW(t, 26), i + 1)

\* c = shr!(a[i], 26); a[i] = and!(a[i], 0x3ffffff); a[j] = add!(a[j], c), with
\* mul!(c, 5) for c where the carry wraps around to limb 0
finish_carry(a, i, j, wraps) ==
    LET c == shrW(a[i], 26)
    IN  [a EXCEPT ![i] = andW(a[i], MASK26),
                  ![j] = addW(a[j], IF wraps THEN mulW(c, Lit(5, 2)) ELSE c)]

\* "Finalize modular reduction"
finish_carries(a) ==
    finish_carry(finish_carry(finish_carry(finish_carry(finish_carry(
        a, 2, 3, FALSE), 3, 4, FALSE), 4, 5, FALSE), 5, 1, TRUE), 1, 2, FALSE)

\* mux: 1 if the value is in (2^130 - 5, 2^130]
finish_mux(a) ==
    andW(andW(andW(andW(gt(a[1], Hex32(1023, 65530)),
         eq(a[2], MASK26)), eq(a[3], MASK26)), eq(a[4], MASK26)), eq(a[5], MASK26))

\* The accumulator as four 32-bit words plus s modulo 2^128, as bytes
finish_tag(a, s) ==
    LET word0 == addW(addW(AsU64(a[1]), shlW(AsU64(a[2]), 26)), AsU64(s[1]))
        word1 == addW(addW(shrW(word0, 32), shlW(AsU64(a[3]), 20)), AsU64(s[2]))
        word2 == addW(addW(shrW(word1, 32), shlW(AsU64(a[4]), 14)), AsU64(s[3]))
        word3 == AsU64(addW(addW(AsU32(shrW(word2, 32)), shlW(a[5], 8)), s[4]))
    IN  write32_le(AsU32(word0)) \o write32_le(AsU32(word1))
        \o write32_le(AsU32(word2)) \o write32_le(AsU32(word3))

\* A faulty poly1305_finish without the second reduction
finish_keep(a) == a

\* The second reduction, chosen by mux
finish_select(a) == finish_reduce(a, finish_mux(a), Lit(5, 2), 1)

\* poly1305_finish: the 16 tag bytes of accumulator a0 and key half s
poly1305_finish(a0, s) == finish_tag(finish_select(finish_carries(a0)), s)

ZeroAcc == <<Zero(2), Zero(2), Zero(2), Zero(2), Zero(2)>>

\* A faulty chachapoly_auth that closes the additional data like a last block
chachapoly_auth_ad_last(k, ad, data, foot) ==
    poly1305_finish(
        poly1305_update(
            poly1305_update(
                poly1305_update(ZeroAcc, k.r, k.u, ad, TRUE),
                k.r, k.u, data, FALSE),
            k.r, k.u, foot, TRUE),
        k.s)

\* The three updates and the finish of chachapoly_auth for the r, s, u of k
chachapoly_auth_with(k, ad, data, foot) ==
    poly1305_finish(
        poly1305_update(
            poly1305_update(
                poly1305_update(ZeroAcc, k.r, k.u, ad, FALSE),
                k.r, k.u, data, FALSE),
            k.r, k.u, foot, TRUE),
        k.s)

\* Poly1305::chachapoly_auth: the tag of ad, data and the footer under key
chachapoly_auth(ad, data, foot, key) ==
    chachapoly_auth_with(poly1305_init(key), ad, data, foot)

\* The update and the finish of Poly1305::auth for the r, s, u of k
poly1305_mac_with(k, data) ==
    poly1305_finish(poly1305_update(ZeroAcc, k.r, k.u, data, TRUE), k.s)

\* The MAC of Poly1305::auth: the tag of data under key
poly1305_mac(data, key) == poly1305_mac_with(poly1305_init(key), data)

(* ------------------------------------------------------------------ *)
(* XChaCha20: HChaCha20 and the ChaCha20 block with a 64-bit counter    *)
(* ------------------------------------------------------------------ *)

\* split64_le!: the u64 counter n as the two u32 words <<low, high>>
split64_le(n) == <<AsU32(n), AsU32(shrW(n, 32))>>

\* combine32_le!: the u64 of two u32 words
combine32_le(lo, hi) == lo \o hi

\* hchacha20_hash: the 32-byte subkey of key and a 16-byte nonce
hchacha20_hash(key, nonce) ==
    LET key_words   == Strict([i \in 1..8 |-> read32_le(key, (i - 1) * 4)])
        input_words == Strict([i \in 1..4 |-> read32_le(nonce, (i - 1) * 4)])
        state == chacha20_rounds(CONSTANTS_ \o key_words \o input_words)
    IN  Flatten(Strict([i \in 1..4 |-> write32_le(state[i])]))
        \o Flatten(Strict([i \in 1..4 |-> write32_le(state[12 + i])]))

\* chacha20_block, "Initialize": the 16 words of the state before the rounds
chacha20_block_init(key, nonce, n) ==
    LET key_words   == Strict([i \in 1..8 |-> read32_le(key, (i - 1) * 4)])
        nonce_words == Strict([i \in 1..2 |-> read32_le(nonce, (i - 1) * 4)])
    IN  CONSTANTS_ \o key_words \o split64_le(n) \o nonce_words

\* chacha20_block, "Finalize block": the 64 bytes of the state after the rounds;
\* the words 12 and 13 are combined to a u64, n is added, and the sum is written
\* by write64_le!
chacha20_block_final(state, init, n) ==
    LET ctr == addW(combine32_le(state[13], state[14]), n)
    IN  Flatten(Strict([i \in 1..12 |-> write32_le(add32(state[i], init[i]))]))
        \o write32_le(AsU32(ctr)) \o write32_le(AsU32(shrW(ctr, 32)))
        \o Flatten(Strict([i \in 1..2 |-> write32_le(add32(state[14 + i], init[14 + i]))]))

\* chacha20_block: the n-th ChaCha20 block (u64 counter n, 8-byte nonce), 64 bytes
chacha20_block(key, nonce, n) ==
    LET init  == chacha20_block_init(key, nonce, n)
        state == chacha20_rounds(init)
    IN  chacha20_block_final(state, init, n)

(* ------------------------------------------------------------------ *)
(* Sizes and caps                                                      *)
(* ------------------------------------------------------------------ *)

\* The keystream buffer of xor: vec![0; 64]
BLOCK_SIZE == 64
CHACHA20_KEY == 32
CHACHA20_NONCE == 12
XCHACHA20_NONCE == 24
CHACHAPOLY_TAG == 16
POLY1305_KEY == 32
POLY1305_TAG == 16

\* u32::max_value() and u64::max_value() of the block counters
U32_MAX == U32_LIMIT - 1
U64_LIMIT == U32_LIMIT + U64_EXTRA
U64_MAX == U64_LIMIT - 1
\* usize::max_value(): as on a 64-bit host, more bytes than the u32 counter
\* covers and fewer blocks than the u64 counter counts
USIZE_MAX == (U64_MAX * BLOCK_SIZE) - 1

\* 2^32 * BLOCK_SIZE
CHACHA20_MAX == U32_LIMIT * BLOCK_SIZE
\* (2^32 - 1) * BLOCK_SIZE
CHACHAPOLY_MAX == (U32_LIMIT - 1) * BLOCK_SIZE
XCHACHA20_MAX == USIZE_MAX
XCHACHAPOLY_MAX == CHACHAPOLY_MAX

\* A faulty min that leaves a loop nothing to take
min_none(a, b) == 0

Min(a, b) == IF a < b THEN a ELSE b

(* ------------------------------------------------------------------ *)
(* Results                                                             *)
(* ------------------------------------------------------------------ *)

NoResult    == [kind |-> "none", len |-> 0, msg |-> ""]
Ok(len)     == [kind |-> "Ok", len |-> len, msg |-> ""]
ApiMisuse(msg) == [kind |-> "ApiMisuse", len |-> 0, msg |-> msg]
InvalidData == [kind |-> "InvalidData", len |-> 0, msg |-> ""]
Panic(msg)  == [kind |-> "panic", len |-> 0, msg |-> msg]
\* The input passed the checks of a vfy_* macro
Pass        == [kind |-> "pass", len |-> 0, msg |-> ""]

(* ------------------------------------------------------------------ *)
(* Input validation (verify_input.rs)                                  *)
(* ------------------------------------------------------------------ *)

\* vfy_enc!: key, nonce, plaintext and buf are the lengths (_cv) of the arguments
vfy_enc(key, nonce, plaintext, buf, KEY, NONCE, MAX) ==
    IF key # KEY THEN ApiMisuse("Invalid key length")
    ELSE IF nonce # NONCE THEN ApiMisuse("Invalid nonce length")
    ELSE IF plaintext > MAX THEN ApiMisuse("Too much data")
    ELSE IF plaintext > buf THEN ApiMisuse("Buffer is too small")
    ELSE Pass

\* A faulty vfy_dec! that looks at the buffer before the cap
vfy_dec_buf_first(key, nonce, ciphertext, buf, KEY, NONCE, MAX) ==
    IF key # KEY THEN ApiMisuse("Invalid key length")
    ELSE IF nonce # NONCE THEN ApiMisuse("Invalid nonce length")
    ELSE IF ciphertext > buf THEN ApiMisuse("Buffer is too small")
    ELSE IF ciphertext > MAX THEN ApiMisuse("Too much data")
    ELSE Pass

\* vfy_dec!
vfy_dec(key, nonce, ciphertext, buf, KEY, NONCE, MAX) ==
    IF key # KEY THEN ApiMisuse("Invalid key length")
    ELSE IF nonce # NONCE THEN ApiMisuse("Invalid nonce length")
    ELSE IF ciphertext > MAX THEN ApiMisuse("Too much data")
    ELSE IF ciphertext > buf THEN ApiMisuse("Buffer is too small")
    ELSE Pass

\* vfy_auth!
vfy_auth(key, buf) ==
    IF key # POLY1305_KEY THEN ApiMisuse("Invalid key length")
    ELSE IF buf < POLY1305_TAG THEN ApiMisuse("Buffer is too small")
    ELSE Pass

\* A faulty vfy_seal! that looks at the nonce before the key
vfy_seal_nonce_first(key, nonce, plaintext, buf, KEY, NONCE, MAX) ==
    IF nonce # NONCE THEN ApiMisuse("Invalid nonce length")
    ELSE IF key # KEY THEN ApiMisuse("Invalid key length")
    ELSE IF plaintext > MAX THEN ApiMisuse("Too much data")
    ELSE IF buf < plaintext + CHACHAPOLY_TAG THEN ApiMisuse("Buffer is too small")
    ELSE Pass

\* vfy_seal!
vfy_seal(key, nonce, plaintext, buf, KEY, NONCE, MAX) ==
    IF key # KEY THEN ApiMisuse("Invalid key length")
    ELSE IF nonce # NONCE THEN ApiMisuse("Invalid nonce length")
    ELSE IF plaintext > MAX THEN ApiMisuse("Too much data")
    ELSE IF buf < plaintext + CHACHAPOLY_TAG THEN ApiMisuse("Buffer is too small")
    ELSE Pass

\* A faulty vfy_open! that looks at the buffer before the length of the input
vfy_open_buf_first(key, nonce, ciphertext, buf, KEY, NONCE, MAX) ==
    IF key # KEY THEN ApiMisuse("Invalid key length")
    ELSE IF nonce # NONCE THEN ApiMisuse("Invalid nonce length")
    ELSE IF ciphertext > MAX THEN ApiMisuse("Too much data")
    ELSE IF buf < ciphertext THEN ApiMisuse("Buffer is too small")
    ELSE IF ciphertext < CHACHAPOLY_TAG THEN InvalidData
    ELSE Pass

\* vfy_open!
vfy_open(key, nonce, ciphertext, buf, KEY, NONCE, MAX) ==
    IF key # KEY THEN ApiMisuse("Invalid key length")
    ELSE IF nonce # NONCE THEN ApiMisuse("Invalid nonce length")
    ELSE IF ciphertext > MAX THEN ApiMisuse("Too much data")
    ELSE IF ciphertext < CHACHAPOLY_TAG THEN InvalidData
    ELSE IF buf < ciphertext THEN ApiMisuse("Buffer is too small")
    ELSE Pass

\* or!: the bitwise or of two bytes
or8(x, y) == xor8(x, y) + and8(x, y)

\* A faulty fold that leaves the loop at the first difference
RECURSIVE eq_ct_fold_short(_, _, _, _)
eq_ct_fold_short(a, b, st, i) ==
    IF i > Len(a) \/ st.x # 0 THEN st
    ELSE eq_ct_fold_short(a, b, [x     |-> or8(st.x, xor8(a[i], b[i])),
                                 steps |-> st.steps + 1], i + 1)

\* eq_ct!: the fold x |= a[i] ^ b[i] over all indices; st is x and the number
\* of loop steps taken
RECURSIVE eq_ct_fold(_, _, _, _)
eq_ct_fold(a, b, st, i) ==
    IF i > Len(a) THEN st
    ELSE eq_ct_fold(a, b, [x     |-> or8(st.x, xor8(a[i], b[i])),
                           steps |-> st.steps + 1], i + 1)

\* eq_ct!: the result, and the number of loop steps it took
eq_ct_run(a, b) ==
    IF Len(a) = Len(b)
    THEN LET st == eq_ct_fold(a, b, [x |-> 0, steps |-> 0], 1)
         IN  [eq |-> st.x = 0, steps |-> st.steps]
    ELSE [eq |-> FALSE, steps |-> 0]

eq_ct(a, b) == eq_ct_run(a, b).eq

\* The footer of the AEAD: the lengths of ad and data as two little-endian u64
le_bytes64(len) ==
    <<len % 256, (len \div 256) % 256, (len \div 65536) % 256, len \div 16777216,
      0, 0, 0, 0>>

\* A faulty footer that tells the sum of the two lengths
footer_sum(ad_len, data_len) == le_bytes64(ad_len + data_len) \o le_bytes64(0)

footer(ad_len, data_len) == le_bytes64(ad_len) \o le_bytes64(data_len)

(* ------------------------------------------------------------------ *)
(* The primitives and the inputs of the calls                          *)
(* ------------------------------------------------------------------ *)

CHACHAPOLY_KEY == 32
CHACHAPOLY_NONCE == 12
XCHACHA20_KEY == CHACHA20_KEY
XCHACHAPOLY_KEY == CHACHAPOLY_KEY
XCHACHAPOLY_NONCE == 24
XCHACHAPOLY_TAG == CHACHAPOLY_TAG

Ciphers == {"ChaCha20Ietf", "XChaCha20"}
Aeads   == {"ChachaPolyIetf", "XChachaPoly"}
\* The primitives built on XChaCha20::xor; the others use ChaCha20Ietf::xor
XPrims  == {"XChaCha20", "XChachaPoly"}

KeyLen(prim) ==
    CASE prim = "ChaCha20Ietf"   -> CHACHA20_KEY
      [] prim = "Poly1305"       -> POLY1305_KEY
      [] prim = "XChaCha20"      -> XCHACHA20_KEY
      [] prim = "ChachaPolyIetf" -> CHACHAPOLY_KEY
      [] prim = "XChachaPoly"    -> XCHACHAPOLY_KEY

NonceLen(prim) ==
    CASE prim = "ChaCha20Ietf"   -> CHACHA20_NONCE
      [] prim = "XChaCha20"      -> XCHACHA20_NONCE
      [] prim = "ChachaPolyIetf" -> CHACHAPOLY_NONCE
      [] prim = "XChachaPoly"    -> XCHACHAPOLY_NONCE

MaxOf(prim) ==
    CASE prim = "ChaCha20Ietf"   -> CHACHA20_MAX
      [] prim = "XChaCha20"      -> XCHACHA20_MAX
      [] prim = "ChachaPolyIetf" -> CHACHAPOLY_MAX
      [] prim = "XChachaPoly"    -> XCHACHAPOLY_MAX

\* The largest value of the block counter of a primitive's xor
CounterMax(prim) == IF prim \in XPrims THEN U64_MAX ELSE U32_MAX

\* Keys of 32, 31 and 33 bytes
KeyA == [i \in 1..32 |-> 127 + i]
Keys == {KeyA, SubSeq(KeyA, 1, 31), KeyA \o <<0>>}

\* Nonces of 12 and 24 bytes: each is of the wrong length for the other family
Nonce12 == <<7, 0, 0, 0, 64, 65, 66, 67, 68, 69, 70, 71>>
Nonce24 == [i \in 1..24 |-> 63 + i]
Nonces  == {Nonce12, Nonce24}

\* Associated data
AdA == <<80, 81, 82, 83, 192, 193, 194, 195, 196, 197, 198, 199>>
Ads == {<<>>, AdA}

\* A payload of len bytes
Payload(len) == [i \in 1..len |-> ((i * 7) + 3) % 256]

\* A caller's buffer of blen bytes that holds the first bytes of a payload of
\* len bytes and is otherwise filled with 0xAA
CallerBuf(len, blen) ==
    [i \in 1..blen |-> IF i <= len THEN ((i * 7) + 3) % 256 ELSE 170]

\* A caller's buffer of blen bytes filled with 0xAA
FreshBuf(blen) == [i \in 1..blen |-> 170]

\* Payload lengths: around one block, around the lengths at which the block
\* counters end, and around the caps
Lens ==
    {l \in {0, 1, CHACHAPOLY_TAG - 1, CHACHAPOLY_TAG, BLOCK_SIZE, BLOCK_SIZE + 1,
            (U32_MAX - 1) * BLOCK_SIZE, ((U32_MAX - 1) * BLOCK_SIZE) + 1,
            CHACHAPOLY_MAX - CHACHAPOLY_TAG, (CHACHAPOLY_MAX - CHACHAPOLY_TAG) + 1,
            CHACHAPOLY_MAX, CHACHAPOLY_MAX + 1,
            CHACHAPOLY_MAX + CHACHAPOLY_TAG, CHACHAPOLY_MAX + CHACHAPOLY_TAG + 1,
            CHACHA20_MAX, CHACHA20_MAX + 1, USIZE_MAX} : l <= USIZE_MAX}

\* Buffer lengths around the length an operation needs
BufLens(need) ==
    {b \in {need - 1, need, need + EXTRA_ROOM} : b >= 0 /\ b <= USIZE_MAX}

\* data with bit `mask` of byte i (1-based) flipped
FlipBit(data, i, mask) == [data EXCEPT ![i] = xor8(data[i], mask)]

(* ------------------------------------------------------------------ *)
(* State                                                               *)
(* ------------------------------------------------------------------ *)

VARIABLES
    pc,       \* where the running call stands: idle, enter, xor, auth, cmp, done
    call,     \* the arguments of the running call
    buf,      \* the caller's buffer `buf`
    dlen,     \* the length of `data`, the front of buf the call works on
    tgt,      \* what the running xor works on: "data" or "pkey"
    n,        \* the block counter of the running xor
    pos,      \* the bytes of its target the running xor has consumed
    x_key,    \* the key XChaCha20::xor derives with hchacha20_hash
    pkey,     \* the one-time Poly1305 key
    vfy_tag,  \* the tag computed by chachapoly_auth
    result,   \* what the call returned
    entry,    \* history: buf as it was when the call was entered
    sealed,   \* history: the message of the last successful seal
    trace,    \* history: the effects of the running call, in order
    threads,  \* the calls two threads run side by side, each with its own locals
    last_auth, \* history: the last (key, data, tag) a thread's Poly1305 auth returned
    unit      \* one function of the core run on its own: its inputs, its steps

call_vars == <<pc, call, buf, dlen, tgt, n, pos, x_key, pkey, vfy_tag, result, entry,
               sealed, trace>>
thread_vars == <<threads, last_auth>>
vars == <<call_vars, thread_vars, unit>>

\* No function of the core runs on its own
NoUnit == [fn |-> "none"]

Threads == {1, 2}

\* A thread that runs no call; k holds the locals r, s, u of Poly1305::auth
NoThread ==
    [pc |-> "idle", op |-> "", key |-> <<>>, nonce |-> <<>>, data |-> <<>>,
     buf |-> <<>>, k |-> [r |-> <<>>, s |-> <<>>, u |-> <<>>], a |-> <<>>,
     pos |-> 0, n |-> 0, result |-> NoResult]
NoAuth == [key |-> <<>>, data |-> <<>>, tag |-> <<>>]

NoCall ==
    [prim |-> "", op |-> "", key |-> <<>>, nonce |-> <<>>, ad |-> <<>>,
     len |-> 0, src |-> <<>>, n |-> 0, blen |-> 0, from |-> ""]

NoSealed ==
    [prim |-> "", key |-> <<>>, nonce |-> <<>>, ad |-> <<>>, pt |-> <<>>, msg |-> <<>>]

Event(ev, t, k) == [ev |-> ev, tgt |-> t, n |-> k]

Init ==
    /\ pc = "idle"
    /\ call = NoCall
    /\ buf = <<>>
    /\ dlen = 0
    /\ tgt = ""
    /\ n = 0
    /\ pos = 0
    /\ x_key = <<>>
    /\ pkey = <<>>
    /\ vfy_tag = <<>>
    /\ result = NoResult
    /\ entry = <<>>
    /\ sealed = NoSealed
    /\ trace = <<>>
    /\ threads = [t \in Threads |-> NoThread]
    /\ last_auth = NoAuth
    /\ unit = NoUnit

\* A faulty copy that clears the bytes of buf after the copy
copy_and_clear(b, src) ==
    Strict([i \in 1..Len(b) |-> IF i <= Len(src) THEN src[i] ELSE 0])

\* buf[..src.len()].copy_from_slice(src)
copy_from_slice(b, src) ==
    Strict([i \in 1..Len(b) |-> IF i <= Len(src) THEN src[i] ELSE b[i]])

\* A faulty return of a rejected call: the source of a _to variant was copied
\* into buf before the validation
RejectAfterCopy(b, v) ==
    /\ pc' = "done"
    /\ result' = v
    /\ buf' = copy_from_slice(b, call'.src)
    /\ trace' = <<>>
    /\ UNCHANGED <<dlen, tgt, n, pos, x_key, pkey, vfy_tag>>

\* The return of a call whose input validation failed with v: nothing else is done
Reject(b, v) ==
    /\ pc' = "done"
    /\ result' = v
    /\ buf' = b
    /\ trace' = <<>>
    /\ UNCHANGED <<dlen, tgt, n, pos, x_key, pkey, vfy_tag>>

\* A call of ChaCha20Ietf::xor or XChaCha20::xor on target t from counter n0
StartXor(t, n0) ==
    /\ pc' = "enter"
    /\ tgt' = t
    /\ n' = n0
    /\ pos' = 0
    /\ x_key' = <<>>

\* n.wrapping_add(1): the increment a faulty xor would use
wrapping_add(k, max) == (k + 1) % (max + 1)

\* A faulty increment that leaves the counter as it is
stuck_add(k, max) == k

\* n.checked_add(1), None being -1
checked_add(k, max) == IF k = max THEN -1 ELSE k + 1

\* A faulty XOR of a block into data: the keystream is added modulo 256
add_chunk(data, at, block, to_xor) ==
    Strict([i \in 1..Len(data) |->
        IF i > at /\ i <= at + to_xor THEN (data[i] + block[i - at]) % 256 ELSE data[i]])

\* data[i] = xor!(data[i], buf[i]) for the to_xor bytes of data from offset at
xor_chunk(data, at, block, to_xor) ==
    Strict([i \in 1..Len(data) |->
        IF i > at /\ i <= at + to_xor THEN xor8(data[i], block[i - at]) ELSE data[i]])

\* The block xor computes for counter k: chacha20 in ChaCha20Ietf::xor,
\* chacha20_block with x_key and the last 8 bytes of the nonce in XChaCha20::xor
keystream_block(prim, k_or_x_key, nonce, k) ==
    IF prim \in XPrims
    THEN chacha20_block(k_or_x_key, SubSeq(nonce, 17, 24), Lit(k, 4))
    ELSE chacha20(k_or_x_key, nonce, k)

RECURSIVE xor_blocks(_, _, _, _, _, _)
\* The loop `while !data.is_empty()` of xor as a function: the data with the bytes
\* before offset at done, counter k next; panic when checked_add gives None
xor_blocks(prim, k_or_x_key, nonce, k, data, at) ==
    IF at >= Len(data) \/ Len(k_or_x_key) # 32 THEN [panic |-> FALSE, data |-> data]
    ELSE IF checked_add(k, CounterMax(prim)) = -1 THEN [panic |-> TRUE, data |-> data]
    ELSE xor_blocks(prim, k_or_x_key, nonce, checked_add(k, CounterMax(prim)),
                    xor_chunk(data, at, keystream_block(prim, k_or_x_key, nonce, k),
                              Min(Len(data) - at, BLOCK_SIZE)),
                    at + Min(Len(data) - at, BLOCK_SIZE))

\* ChaCha20Ietf::xor / XChaCha20::xor as a function of its arguments (key and
\* nonce of the right lengths)
xor(prim, key, nonce, k, data) ==
    xor_blocks(prim,
               IF prim \in XPrims THEN hchacha20_hash(key, SubSeq(nonce, 1, 16)) ELSE key,
               nonce, k, data, 0)

\* chachapoly_seal / xchachapoly_seal as a function: the encrypted data and the
\* tag, or the panic of one of the two calls of xor
chachapoly_seal_with(prim, enc, ad, key, nonce) ==
    IF enc.panic THEN [panic |-> TRUE, data |-> enc.data, tag |-> <<>>]
    ELSE LET pkey_ == xor(prim, key, nonce, 0, [i \in 1..32 |-> 0])
         IN  [panic |-> pkey_.panic,
              data  |-> enc.data,
              tag   |-> chachapoly_auth(ad, enc.data, footer(Len(ad), Len(enc.data)),
                                        pkey_.data)]

chachapoly_seal(prim, data, ad, key, nonce) ==
    chachapoly_seal_with(prim, xor(prim, key, nonce, 1, data), ad, key, nonce)

\* The length of the slice the running xor works on
TargetLen == IF tgt = "pkey" THEN Len(pkey) ELSE dlen

(* ------------------------------------------------------------------ *)
(* Cipher: ChaCha20Ietf and XChaCha20                                  *)
(* ------------------------------------------------------------------ *)

\* The statements of encrypt/decrypt (and, after the copy, of their _to variants)
\* that follow the validation: Self::xor(key, nonce, 0, &mut buf[..len])
CipherXor(prim, key, nonce, len, b, copied) ==
    /\ buf' = b
    /\ dlen' = len
    /\ result' = NoResult
    /\ trace' = IF copied THEN <<Event("copy", "buf", len)>> ELSE <<>>
    /\ StartXor("data", 0)
    /\ UNCHANGED <<pkey, vfy_tag>>

\* Cipher::encrypt(buf, plaintext_len, key, nonce)
Encrypt ==
    /\ pc = "idle" /\ sealed = NoSealed
    /\ UNCHANGED <<thread_vars, unit>>
    /\ \E prim \in Ciphers, key \in Keys, nonce \in Nonces, plaintext_len \in Lens :
       \E blen \in BufLens(plaintext_len) :
          LET b == CallerBuf(plaintext_len, blen)
              v == vfy_enc(Len(key), Len(nonce), plaintext_len, blen,
                           KeyLen(prim), NonceLen(prim), MaxOf(prim))
          IN  /\ call' = [NoCall EXCEPT !.prim = prim, !.op = "encrypt", !.key = key,
                              !.nonce = nonce, !.len = plaintext_len, !.blen = blen]
              /\ entry' = b
              /\ IF v = Pass THEN CipherXor(prim, key, nonce, plaintext_len, b, FALSE)
                 ELSE Reject(b, v)
              /\ UNCHANGED sealed

\* Cipher::encrypt_to(buf, plaintext, key, nonce)
EncryptTo ==
    /\ pc = "idle" /\ sealed = NoSealed
    /\ UNCHANGED <<thread_vars, unit>>
    /\ \E prim \in Ciphers, key \in Keys, nonce \in Nonces, len \in Lens :
       \E blen \in BufLens(len) :
          LET plaintext == Payload(len)
              b == FreshBuf(blen)
              v == vfy_enc(Len(key), Len(nonce), Len(plaintext), blen,
                           KeyLen(prim), NonceLen(prim), MaxOf(prim))
          IN  /\ call' = [NoCall EXCEPT !.prim = prim, !.op = "encrypt_to", !.key = key,
                              !.nonce = nonce, !.len = len, !.src = plaintext,
                              !.blen = blen]
              /\ entry' = b
              /\ IF v = Pass
                 THEN CipherXor(prim, key, nonce, len, copy_from_slice(b, plaintext), TRUE)
                 ELSE Reject(b, v)
              /\ UNCHANGED sealed

\* Cipher::decrypt(buf, ciphertext_len, key, nonce)
Decrypt ==
    /\ pc = "idle" /\ sealed = NoSealed
    /\ UNCHANGED <<thread_vars, unit>>
    /\ \E prim \in Ciphers, key \in Keys, nonce \in Nonces, ciphertext_len \in Lens :
       \E blen \in BufLens(ciphertext_len) :
          LET b == CallerBuf(ciphertext_len, blen)
              v == vfy_dec(Len(key), Len(nonce), ciphertext_len, blen,
                           KeyLen(prim), NonceLen(prim), MaxOf(prim))
          IN  /\ call' = [NoCall EXCEPT !.prim = prim, !.op = "decrypt", !.key = key,
                              !.nonce = nonce, !.len = ciphertext_len, !.blen = blen]
              /\ entry' = b
              /\ IF v = Pass THEN CipherXor(prim, key, nonce, ciphertext_len, b, FALSE)
                 ELSE Reject(b, v)
              /\ UNCHANGED sealed

\* Cipher::decrypt_to(buf, ciphertext, key, nonce)
DecryptTo ==
    /\ pc = "idle" /\ sealed = NoSealed
    /\ UNCHANGED <<thread_vars, unit>>
    /\ \E prim \in Ciphers, key \in Keys, nonce \in Nonces, len \in Lens :
       \E blen \in BufLens(len) :
          LET ciphertext == Payload(len)
              b == FreshBuf(blen)
              v == vfy_dec(Len(key), Len(nonce), Len(ciphertext), blen,
                           KeyLen(prim), NonceLen(prim), MaxOf(prim))
          IN  /\ call' = [NoCall EXCEPT !.prim = prim, !.op = "decrypt_to", !.key = key,
                              !.nonce = nonce, !.len = len, !.src = ciphertext,
                              !.blen = blen]
              /\ entry' = b
              /\ IF v = Pass
                 THEN CipherXor(prim, key, nonce, len, copy_from_slice(b, ciphertext), TRUE)
                 ELSE Reject(b, v)
              /\ UNCHANGED sealed

\* Counters a direct call of xor starts from
StartCounters(prim) == {0, 1, CounterMax(prim) - 1, CounterMax(prim)}

\* Data lengths of the direct calls of xor: up to the blocks the u32 counter counts
XorLens == {l \in Lens : l <= CHACHA20_MAX}

\* A direct call ChaCha20Ietf::xor(key, nonce, n, data) or XChaCha20::xor(...)
Xor ==
    /\ pc = "idle" /\ sealed = NoSealed
    /\ UNCHANGED <<thread_vars, unit>>
    /\ \E prim \in Ciphers, key \in Keys, nonce \in Nonces, len \in XorLens :
       \E n0 \in StartCounters(prim) :
          LET data == Payload(len)
          IN  /\ call' = [NoCall EXCEPT !.prim = prim, !.op = "xor", !.key = key,
                              !.nonce = nonce, !.len = len, !.n = n0, !.blen = len]
              /\ entry' = data
              /\ buf' = data
              /\ dlen' = len
              /\ result' = NoResult
              /\ trace' = <<>>
              /\ StartXor("data", n0)
              /\ UNCHANGED <<pkey, vfy_tag, sealed>>

(* ------------------------------------------------------------------ *)
(* AeadCipher: ChachaPolyIetf and XChachaPoly                          *)
(* ------------------------------------------------------------------ *)

\* The first statement of chachapoly_seal / xchachapoly_seal after seal's or
\* seal_to's validation (and copy): xor(key, nonce, 1, data)
SealXor(prim, key, nonce, len, b, copied) ==
    /\ buf' = b
    /\ dlen' = len
    /\ result' = NoResult
    /\ trace' = IF copied THEN <<Event("copy", "buf", len)>> ELSE <<>>
    /\ StartXor("data", 1)
    /\ UNCHANGED <<pkey, vfy_tag>>

\* AeadCipher::seal(buf, plaintext_len, ad, key, nonce)
Seal ==
    /\ pc = "idle" /\ sealed = NoSealed
    /\ UNCHANGED <<thread_vars, unit>>
    /\ \E prim \in Aeads, key \in Keys, nonce \in Nonces, ad \in Ads,
          plaintext_len \in Lens :
       \E blen \in BufLens(plaintext_len + CHACHAPOLY_TAG) :
          LET b == CallerBuf(plaintext_len, blen)
              v == vfy_seal(Len(key), Len(nonce), plaintext_len, blen,
                            KeyLen(prim), NonceLen(prim), MaxOf(prim))
          IN  /\ call' = [NoCall EXCEPT !.prim = prim, !.op = "seal", !.key = key,
                              !.nonce = nonce, !.ad = ad, !.len = plaintext_len,
                              !.blen = blen]
              /\ entry' = b
              /\ IF v = Pass THEN SealXor(prim, key, nonce, plaintext_len, b, FALSE)
                 ELSE Reject(b, v)
              /\ UNCHANGED sealed

\* AeadCipher::seal_to(buf, plaintext, ad, key, nonce)
SealTo ==
    /\ pc = "idle" /\ sealed = NoSealed
    /\ UNCHANGED <<thread_vars, unit>>
    /\ \E prim \in Aeads, key \in Keys, nonce \in Nonces, ad \in Ads, len \in Lens :
       \E blen \in BufLens(len + CHACHAPOLY_TAG) :
          LET plaintext == Payload(len)
              b == FreshBuf(blen)
              v == vfy_seal(Len(key), Len(nonce), Len(plaintext), blen,
                            KeyLen(prim), NonceLen(prim), MaxOf(prim))
          IN  /\ call' = [NoCall EXCEPT !.prim = prim, !.op = "seal_to", !.key = key,
                              !.nonce = nonce, !.ad = ad, !.len = len,
                              !.src = plaintext, !.blen = blen]
              /\ entry' = b
              /\ IF v = Pass
                 THEN SealXor(prim, key, nonce, len, copy_from_slice(b, plaintext), TRUE)
                 ELSE Reject(b, v)
              /\ UNCHANGED sealed

\* How the caller derives the input of open from the sealed message: unchanged,
\* with one bit of the ciphertext or of the tag flipped, or with other
\* associated data (other content, other length)
Variants ==
    {"intact", "tag_first", "tag_last", "ad_content", "ad_len"}
    \cup (IF sealed.pt = <<>> THEN {} ELSE {"ct_first", "ct_last"})

TamperedMsg(v) ==
    CASE v = "ct_first"  -> FlipBit(sealed.msg, 1, 1)
      [] v = "ct_last"   -> FlipBit(sealed.msg, Len(sealed.pt), 128)
      [] v = "tag_first" -> FlipBit(sealed.msg, Len(sealed.pt) + 1, 1)
      [] v = "tag_last"  -> FlipBit(sealed.msg, Len(sealed.msg), 128)
      [] OTHER           -> sealed.msg

TamperedAd(v) ==
    CASE v = "ad_content" -> IF sealed.ad = <<>> THEN AdA ELSE FlipBit(sealed.ad, 1, 1)
      [] v = "ad_len"     -> sealed.ad \o <<0>>
      [] OTHER            -> sealed.ad

\* The messages open is called with: after a successful seal those derived from
\* the sealed message, with seal's key and nonce; otherwise arbitrary bytes
OpenMsgs ==
    IF sealed = NoSealed
    THEN {[prim |-> p, key |-> k, nonce |-> nn, ad |-> <<>>, msg |-> Payload(l),
           from |-> "fresh"] : p \in Aeads, k \in Keys, nn \in Nonces, l \in Lens}
    ELSE {[prim |-> sealed.prim, key |-> sealed.key, nonce |-> sealed.nonce,
           ad |-> TamperedAd(v), msg |-> TamperedMsg(v), from |-> v] : v \in Variants}

\* The lengths of the buffers open is called with
OpenBufLens(from, need) ==
    IF from \in {"fresh", "intact"} THEN BufLens(need)
    ELSE {b \in BufLens(need) : b <= need}

\* The first statements of chachapoly_open / xchachapoly_open after open's or
\* open_to's validation (and copy): the footer, then xor(key, nonce, 0, pkey)
OpenXor(prim, key, nonce, len, b, copied) ==
    /\ buf' = b
    /\ dlen' = len - CHACHAPOLY_TAG
    /\ result' = NoResult
    /\ trace' = IF copied THEN <<Event("copy", "buf", len - CHACHAPOLY_TAG)>> ELSE <<>>
    /\ pkey' = [i \in 1..32 |-> 0]
    /\ StartXor("pkey", 0)
    /\ UNCHANGED vfy_tag

\* AeadCipher::open(buf, ciphertext_len, ad, key, nonce)
Open ==
    /\ pc = "idle"
    /\ UNCHANGED <<thread_vars, unit>>
    /\ \E in \in OpenMsgs :
       \E blen \in OpenBufLens(in.from, Len(in.msg)) :
          LET ciphertext_len == Len(in.msg)
              b == copy_from_slice(FreshBuf(blen), SubSeq(in.msg, 1, Min(blen, ciphertext_len)))
              v == vfy_open(Len(in.key), Len(in.nonce), ciphertext_len, blen,
                            KeyLen(in.prim), NonceLen(in.prim), MaxOf(in.prim))
          IN  /\ call' = [NoCall EXCEPT !.prim = in.prim, !.op = "open", !.key = in.key,
                              !.nonce = in.nonce, !.ad = in.ad, !.len = ciphertext_len,
                              !.blen = blen, !.from = in.from]
              /\ entry' = b
              /\ IF v = Pass
                 THEN OpenXor(in.prim, in.key, in.nonce, ciphertext_len, b, FALSE)
                 ELSE Reject(b, v)
              /\ UNCHANGED sealed

\* AeadCipher::open_to(buf, ciphertext, ad, key, nonce): the data part of the
\* ciphertext is copied into buf before chachapoly_open is called
OpenTo ==
    /\ pc = "idle"
    /\ UNCHANGED <<thread_vars, unit>>
    /\ \E in \in OpenMsgs :
       \E blen \in OpenBufLens(in.from, Len(in.msg))
                   \cup {l \in {Len(in.msg) - CHACHAPOLY_TAG} : l >= 0} :
          LET ciphertext == in.msg
              b == FreshBuf(blen)
              v == vfy_open(Len(in.key), Len(in.nonce), Len(ciphertext), blen,
                            KeyLen(in.prim), NonceLen(in.prim), MaxOf(in.prim))
              data == SubSeq(ciphertext, 1, Len(ciphertext) - CHACHAPOLY_TAG)
          IN  /\ call' = [NoCall EXCEPT !.prim = in.prim, !.op = "open_to",
                              !.key = in.key, !.nonce = in.nonce, !.ad = in.ad,
                              !.len = Len(ciphertext), !.src = ciphertext,
                              !.blen = blen, !.from = in.from]
              /\ entry' = b
              /\ IF v = Pass
                 THEN OpenXor(in.prim, in.key, in.nonce, Len(ciphertext),
                              copy_from_slice(b, data), TRUE)
                 ELSE Reject(b, v)
              /\ UNCHANGED sealed

(* ------------------------------------------------------------------ *)
(* Mac: Poly1305                                                       *)
(* ------------------------------------------------------------------ *)

\* Data lengths of the calls of auth
AuthLens == {l \in Lens : l <= BLOCK_SIZE + 1}

\* A faulty write that puts bytes at the start of buf
write_at_start(b, at, bytes) ==
    Strict([i \in 1..Len(b) |-> IF i <= Len(bytes) THEN bytes[i] ELSE b[i]])

\* buf[at..at + bytes.len()] overwritten with bytes
write_at(b, at, bytes) ==
    Strict([i \in 1..Len(b) |->
        IF i > at /\ i <= at + Len(bytes) THEN bytes[i - at] ELSE b[i]])

\* Mac::auth(buf, data, key)
Auth ==
    /\ pc = "idle" /\ sealed = NoSealed
    /\ UNCHANGED <<thread_vars, unit>>
    /\ \E key \in Keys, len \in AuthLens, blen \in BufLens(POLY1305_TAG) :
          LET data == Payload(len)
              b == FreshBuf(blen)
              v == vfy_auth(Len(key), blen)
          IN  /\ call' = [NoCall EXCEPT !.prim = "Poly1305", !.op = "auth", !.key = key,
                              !.len = len, !.src = data, !.blen = blen]
              /\ entry' = b
              /\ IF v = Pass
                 THEN /\ buf' = write_at(b, 0, poly1305_mac(data, key))
                      /\ pc' = "done"
                      /\ result' = Ok(POLY1305_TAG)
                      /\ trace' = <<Event("auth", "tag", 0)>>
                      /\ UNCHANGED <<dlen, tgt, n, pos, x_key, pkey, vfy_tag>>
                 ELSE Reject(b, v)
              /\ UNCHANGED sealed

(* ------------------------------------------------------------------ *)
(* The steps of a running call                                         *)
(* ------------------------------------------------------------------ *)

\* The entry of xor: the two assert_eq! on the lengths of key and nonce, and in
\* XChaCha20::xor the derivation of x_key from the key and the first 16 bytes of
\* the nonce
XorEnter ==
    /\ pc = "enter"
    /\ UNCHANGED <<thread_vars, unit>>
    /\ IF Len(call.key) = KeyLen(call.prim) /\ Len(call.nonce) = NonceLen(call.prim)
       THEN /\ pc' = "xor"
            /\ x_key' = IF call.prim \in XPrims
                        THEN hchacha20_hash(call.key, SubSeq(call.nonce, 1, 16))
                        ELSE <<>>
            /\ UNCHANGED result
       ELSE /\ pc' = "done"
            /\ result' = Panic("assertion failed")
            /\ UNCHANGED x_key
    /\ UNCHANGED <<call, buf, dlen, tgt, n, pos, pkey, vfy_tag, entry, sealed, trace>>

\* One iteration of the loop of xor: the block is computed, the counter is
\* incremented (the panic of expect when checked_add gives None), then the next
\* min(data.len(), 64) bytes are XORed
XorLoop(block, max, msg) ==
    LET next   == checked_add(n, max)
        to_xor == Min(TargetLen - pos, BLOCK_SIZE)
    IN  IF next = -1
        THEN /\ pc' = "done"
             /\ result' = Panic(msg)
             /\ trace' = Append(trace, Event("block", tgt, n))
             /\ UNCHANGED <<call, buf, dlen, tgt, n, pos, x_key, pkey, vfy_tag,
                            entry, sealed>>
        ELSE /\ n' = next
             /\ pos' = pos + to_xor
             /\ IF tgt = "pkey"
                THEN pkey' = xor_chunk(pkey, pos, block, to_xor) /\ UNCHANGED buf
                ELSE buf' = xor_chunk(buf, pos, block, to_xor) /\ UNCHANGED pkey
             /\ trace' = trace \o <<Event("block", tgt, n), Event("xor", tgt, n)>>
             /\ UNCHANGED <<pc, call, dlen, tgt, x_key, vfy_tag, result, entry, sealed>>

\* ChaCha20Ietf::xor, one iteration of `while !data.is_empty()`
ChaCha20Ietf_xor ==
    /\ pc = "xor" /\ call.prim \notin XPrims
    /\ UNCHANGED <<thread_vars, unit>>
    /\ pos < TargetLen
    /\ XorLoop(chacha20(call.key, call.nonce, n), U32_MAX,
               "The ChaCha20 block counter must not exceed 2^32 - 1")

\* XChaCha20::xor, one iteration of `while !data.is_empty()`
XChaCha20_xor ==
    /\ pc = "xor" /\ call.prim \in XPrims
    /\ UNCHANGED <<thread_vars, unit>>
    /\ pos < TargetLen
    /\ XorLoop(chacha20_block(x_key, SubSeq(call.nonce, 17, 24), Lit(n, 4)), U64_MAX,
               "The ChaCha20 block counter must not exceed 2^64 - 1")

\* The return of xor (data.is_empty()) and what its caller does next
XorReturn ==
    /\ pc = "xor"
    /\ UNCHANGED <<thread_vars, unit>>
    /\ pos = TargetLen
    /\ CASE call.op = "xor" ->
              /\ pc' = "done" /\ result' = Ok(0)
              /\ UNCHANGED <<tgt, n, pos, x_key, pkey>>
         [] call.prim \in Ciphers /\ call.op # "xor" ->
              /\ pc' = "done" /\ result' = Ok(dlen)
              /\ UNCHANGED <<tgt, n, pos, x_key, pkey>>
         [] call.op \in {"seal", "seal_to"} /\ tgt = "data" ->
              \* chachapoly_seal: the footer, pkey = vec![0; 32], xor(key, nonce, 0, pkey)
              /\ pkey' = [i \in 1..32 |-> 0]
              /\ StartXor("pkey", 0)
              /\ UNCHANGED result
         [] call.op \in {"seal", "seal_to", "open", "open_to"} /\ tgt = "pkey" ->
              \* Poly1305::chachapoly_auth is next
              /\ pc' = "auth"
              /\ UNCHANGED <<tgt, n, pos, x_key, pkey, result>>
         [] call.op \in {"open", "open_to"} /\ tgt = "data" ->
              \* Ok(ciphertext_len - CHACHAPOLY_TAG)
              /\ pc' = "done" /\ result' = Ok(dlen)
              /\ UNCHANGED <<tgt, n, pos, x_key, pkey>>
    /\ UNCHANGED <<call, buf, dlen, vfy_tag, entry, sealed, trace>>

\* Poly1305::chachapoly_auth over ad, data and the footer; seal writes the tag
\* after the data and returns, open keeps it as vfy_tag
Authenticate ==
    /\ pc = "auth"
    /\ UNCHANGED <<thread_vars, unit>>
    /\ LET foot == footer(Len(call.ad), dlen)
           tag  == chachapoly_auth(call.ad, SubSeq(buf, 1, dlen), foot, pkey)
       IN  IF call.op \in {"seal", "seal_to"}
           THEN /\ buf' = write_at(buf, dlen, tag)
                /\ pc' = "done"
                /\ result' = Ok(dlen + CHACHAPOLY_TAG)
                /\ UNCHANGED vfy_tag
           ELSE /\ vfy_tag' = tag
                /\ pc' = "cmp"
                /\ UNCHANGED <<buf, result>>
    /\ trace' = Append(trace, Event("auth", "tag", 0))
    /\ UNCHANGED <<call, dlen, tgt, n, pos, x_key, pkey, entry, sealed>>

\* The tag open was given: the 16 bytes after the data
ReceivedTag ==
    IF call.op = "open_to" THEN SubSeq(call.src, dlen + 1, dlen + CHACHAPOLY_TAG)
    ELSE SubSeq(buf, dlen + 1, dlen + CHACHAPOLY_TAG)

\* A faulty chachapoly_open that decrypts whatever eq_ct! says
CompareUnchecked ==
    /\ pc = "cmp"
    /\ UNCHANGED <<thread_vars, unit>>
    /\ StartXor("data", 1)
    /\ trace' = Append(trace, Event("cmp", IF eq_ct(ReceivedTag, vfy_tag) THEN "equal"
                                           ELSE "unequal", 0))
    /\ UNCHANGED <<call, buf, dlen, pkey, vfy_tag, result, entry, sealed>>

\* chachapoly_open: match eq_ct!(&tag, &vfy_tag): true => xor(key, nonce, 1, data),
\* false => Err(InvalidData)
Compare ==
    /\ pc = "cmp"
    /\ UNCHANGED <<thread_vars, unit>>
    /\ IF eq_ct(ReceivedTag, vfy_tag)
       THEN /\ StartXor("data", 1)
            /\ trace' = Append(trace, Event("cmp", "equal", 0))
            /\ UNCHANGED result
       ELSE /\ pc' = "done"
            /\ result' = InvalidData
            /\ trace' = Append(trace, Event("cmp", "unequal", 0))
            /\ UNCHANGED <<tgt, n, pos, x_key>>
    /\ UNCHANGED <<call, buf, dlen, pkey, vfy_tag, entry, sealed>>

\* The call is over. The caller keeps the message of a successful seal to open it
\* next; everything else of the call is dropped
Return ==
    /\ pc = "done"
    /\ UNCHANGED <<thread_vars, unit>>
    /\ pc' = "idle"
    /\ sealed' = IF call.op \in {"seal", "seal_to"} /\ result.kind = "Ok"
                 THEN [prim |-> call.prim, key |-> call.key, nonce |-> call.nonce,
                       ad |-> call.ad,
                       pt |-> IF call.op = "seal" THEN SubSeq(entry, 1, call.len)
                              ELSE call.src,
                       msg |-> SubSeq(buf, 1, result.len)]
                 ELSE NoSealed
    /\ call' = NoCall
    /\ buf' = <<>>
    /\ dlen' = 0
    /\ tgt' = ""
    /\ n' = 0
    /\ pos' = 0
    /\ x_key' = <<>>
    /\ pkey' = <<>>
    /\ vfy_tag' = <<>>
    /\ result' = NoResult
    /\ entry' = <<>>
    /\ trace' = <<>>

Next ==
    \/ Encrypt
    \/ EncryptTo
    \/ Decrypt
    \/ DecryptTo
    \/ Xor
    \/ Seal
    \/ SealTo
    \/ Open
    \/ OpenTo
    \/ Auth
    \/ XorEnter
    \/ ChaCha20Ietf_xor
    \/ XChaCha20_xor
    \/ XorReturn
    \/ Authenticate
    \/ Compare
    \/ Return

Spec == Init /\ [][Next]_vars

(* ------------------------------------------------------------------ *)
(* Calls from two threads. No operation has a static or a field: what  *)
(* a call works on are its arguments and the locals it creates          *)
(* ------------------------------------------------------------------ *)

\* The keys and the data of the threads' calls of auth: two keys of 32 bytes and
\* one of 31, no data and data of two blocks
ThreadKeys == {KeyA, [i \in 1..32 |-> 255 - i], SubSeq(KeyA, 1, 31)}
ThreadData == {<<>>, Payload(POLY1305_TAG + 1)}

\* A faulty accumulator that all calls share, like a static: the one thread 1
\* works on, zero while thread 1 runs no call
acc_static(th, t) == IF Len(th[1].a) = 5 THEN th[1].a ELSE ZeroAcc

\* The accumulator a of the call thread t runs: `a` of `let (mut r, mut s, mut u,
\* mut a) = (vec![0; 5], ...)`, created by the call
acc(th, t) == th[t].a

\* Thread t calls Poly1305::auth(buf, data, key): vfy_auth!, the locals,
\* poly1305_init
ThreadAuth(t) ==
    /\ threads[t].pc = "idle"
    /\ \E key \in ThreadKeys, data \in ThreadData :
          LET v == vfy_auth(Len(key), POLY1305_TAG)
              c == [NoThread EXCEPT !.op = "auth", !.key = key, !.data = data,
                                    !.buf = FreshBuf(POLY1305_TAG)]
          IN  threads' = [threads EXCEPT ![t] =
                 IF v = Pass
                 THEN [c EXCEPT !.pc = "update", !.k = poly1305_init(key), !.a = ZeroAcc]
                 ELSE [c EXCEPT !.pc = "done", !.result = v]]
    /\ UNCHANGED <<last_auth, call_vars, unit>>

\* poly1305_update(&mut a, &r, &u, data, true), one iteration of
\* `while !data.is_empty()`
ThreadUpdate(t) ==
    LET c == threads[t]
        buf_len == Min(Len(c.data) - c.pos, 16)
    IN  /\ c.pc = "update"
        /\ c.pos < Len(c.data)
        /\ threads' = [threads EXCEPT ![t] =
              [c EXCEPT !.a = poly1305_block(acc(threads, t), c.k.r, c.k.u,
                                             SubSeq(c.data, c.pos + 1, c.pos + buf_len),
                                             TRUE),
                        !.pos = c.pos + buf_len]]
        /\ UNCHANGED <<last_auth, call_vars, unit>>

\* poly1305_finish(buf, &mut a, &mut s); Ok(POLY1305_TAG)
ThreadFinish(t) ==
    LET c == threads[t]
    IN  /\ c.pc = "update"
        /\ c.pos = Len(c.data)
        /\ threads' = [threads EXCEPT ![t] =
              [c EXCEPT !.buf = write_at(c.buf, 0, poly1305_finish(acc(threads, t), c.k.s)),
                        !.pc = "done", !.result = Ok(POLY1305_TAG)]]
        /\ UNCHANGED <<last_auth, call_vars, unit>>

\* Thread t calls ChaCha20Ietf::xor(key, nonce, 0, data) on a buffer of its own
ThreadXor(t) ==
    /\ threads[t].pc = "idle"
    /\ threads' = [threads EXCEPT ![t] =
          [NoThread EXCEPT !.pc = "xor", !.op = "xor", !.key = KeyA, !.nonce = Nonce12,
                           !.data = Payload(BLOCK_SIZE + 1),
                           !.buf = Payload(BLOCK_SIZE + 1)]]
    /\ UNCHANGED <<last_auth, call_vars, unit>>

\* ChaCha20Ietf::xor, one iteration of `while !data.is_empty()`
ThreadXorBlock(t) ==
    LET c == threads[t]
        next == checked_add(c.n, U32_MAX)
        to_xor == Min(Len(c.buf) - c.pos, BLOCK_SIZE)
    IN  /\ c.pc = "xor"
        /\ c.pos < Len(c.buf)
        /\ threads' = [threads EXCEPT ![t] =
              IF next = -1
              THEN [c EXCEPT !.pc = "done",
                             !.result = Panic("The ChaCha20 block counter must not exceed 2^32 - 1")]
              ELSE [c EXCEPT !.n = next, !.pos = c.pos + to_xor,
                             !.buf = xor_chunk(c.buf, c.pos,
                                               chacha20(c.key, c.nonce, c.n), to_xor)]]
        /\ UNCHANGED <<last_auth, call_vars, unit>>

\* ChaCha20Ietf::xor returns
ThreadXorReturn(t) ==
    LET c == threads[t]
    IN  /\ c.pc = "xor"
        /\ c.pos = Len(c.buf)
        /\ threads' = [threads EXCEPT ![t] =
              [c EXCEPT !.pc = "done", !.result = Ok(Len(c.buf))]]
        /\ UNCHANGED <<last_auth, call_vars, unit>>

\* The call of thread t has returned: its locals are dropped
ThreadReturn(t) ==
    LET c == threads[t]
    IN  /\ c.pc = "done"
        /\ threads' = [threads EXCEPT ![t] = NoThread]
        /\ last_auth' = IF c.op = "auth" /\ c.result.kind = "Ok"
                        THEN [key |-> c.key, data |-> c.data, tag |-> c.buf]
                        ELSE last_auth
        /\ UNCHANGED <<call_vars, unit>>

NextThreads ==
    \/ \E t \in Threads : ThreadAuth(t)
    \/ \E t \in Threads : ThreadUpdate(t)
    \/ \E t \in Threads : ThreadFinish(t)
    \/ \E t \in Threads : ThreadXor(t)
    \/ \E t \in Threads : ThreadXorBlock(t)
    \/ \E t \in Threads : ThreadXorReturn(t)
    \/ \E t \in Threads : ThreadReturn(t)

SpecThreads == Init /\ [][NextThreads]_vars

(* ------------------------------------------------------------------ *)
(* chacha20_block on its own, for counters of all 64 bits               *)
(* ------------------------------------------------------------------ *)

\* The halves of the u64 counters chacha20_block is run with
CounterLows  == {<<0, 0>>, <<1, 0>>, <<0, 32768>>, <<65535, 32767>>, <<65535, 65535>>}
CounterHighs == {<<0, 0>>, <<1, 0>>, <<65535, 65535>>}

\* chacha20_block(key, nonce, n, buf) up to and including chacha20_rounds
BlockRounds ==
    /\ unit.fn = "none"
    /\ \E key \in {KeyA, [i \in 1..32 |-> 255 - i]},
          nonce \in {SubSeq(Nonce24, 17, 24), [i \in 1..8 |-> 0]},
          lo \in CounterLows, hi \in CounterHighs :
          LET init == chacha20_block_init(key, nonce, lo \o hi)
          IN  unit' = [fn |-> "chacha20_block", pc |-> "rounds", key |-> key,
                       nonce |-> nonce, n |-> lo \o hi, init |-> init,
                       state |-> chacha20_rounds(init), buf |-> <<>>]
    /\ UNCHANGED <<call_vars, thread_vars>>

\* chacha20_block: "Finalize block"
BlockFinal ==
    /\ unit.fn = "chacha20_block" /\ unit.pc = "rounds"
    /\ unit' = [unit EXCEPT !.pc = "final",
                            !.buf = chacha20_block_final(unit.state, unit.init, unit.n)]
    /\ UNCHANGED <<call_vars, thread_vars>>

NextBlock ==
    \/ BlockRounds
    \/ BlockFinal

SpecBlock == Init /\ [][NextBlock]_vars

(* ------------------------------------------------------------------ *)
(* Poly1305 step by step: poly1305_update's loop, poly1305_finish and  *)
(* the branch-free predicates of macros.rs                             *)
(* ------------------------------------------------------------------ *)

\* The most blocks one Poly1305 computation of the model processes
MaxPolyBlocks == 3

\* Keys: the largest clamped r with the largest s, r = 1 with s = 0, an
\* ordinary key, and r = 0
PolyKeys ==
    { [i \in 1..32 |-> 255],
      [i \in 1..32 |-> IF i = 1 THEN 1 ELSE 0],
      KeyA,
      [i \in 1..32 |-> IF i <= 16 THEN 0 ELSE 16 + i] }

\* The data of one poly1305_update call
PolyData ==
    { <<>>,
      [i \in 1..16 |-> 255],
      [i \in 1..19 |-> 255],
      <<1, 2, 3>>,
      [i \in 1..15 |-> 0] }

\* A faulty fill that marks a short last block but clears nothing
poly1305_fill_stale(scratch, block, is_last) ==
    LET buf_len == Len(block)
    IN  Strict([i \in 1..16 |->
            IF i <= buf_len THEN block[i]
            ELSE IF buf_len < 16 /\ is_last /\ i = buf_len + 1 THEN 1
            ELSE scratch[i]])

\* The scratch buffer after the two copies of one iteration: cleared, and
\* marked with 0x01 behind the data if is_last, only when the block is short
poly1305_fill(scratch, block, is_last) ==
    LET buf_len == Len(block)
        cleared == IF buf_len < 16
                   THEN [i \in 1..16 |-> IF is_last /\ i = buf_len + 1 THEN 1 ELSE 0]
                   ELSE scratch
    IN  Strict([i \in 1..16 |-> IF i <= buf_len THEN block[i] ELSE cleared[i]])

\* The locals of poly1305_update and poly1305_finish before they are assigned
NoPolyLocals ==
    [data |-> <<>>, is_last |-> FALSE, len |-> 0, a0 |-> <<>>, iters |-> 0,
     buf |-> <<>>, block |-> <<>>, prev |-> <<>>, dec |-> <<>>, w |-> <<>>,
     t |-> <<>>, carried |-> <<>>, mux |-> <<>>, sel |-> <<>>, tag |-> <<>>]

PolyUnit(at, key, k, a, blocks, l) ==
    [fn |-> "poly1305", pc |-> at, key |-> key, k |-> k, a |-> a, blocks |-> blocks,
     data |-> l.data, is_last |-> l.is_last, len |-> l.len, a0 |-> l.a0,
     iters |-> l.iters, buf |-> l.buf, block |-> l.block, prev |-> l.prev,
     dec |-> l.dec, w |-> l.w, t |-> l.t, carried |-> l.carried, mux |-> l.mux,
     sel |-> l.sel, tag |-> l.tag]

\* poly1305_init and the zeroed accumulator
PolyInit ==
    /\ unit.fn = "none"
    /\ \E key \in PolyKeys :
          unit' = PolyUnit("ready", key, poly1305_init(key), ZeroAcc, 0, NoPolyLocals)
    /\ UNCHANGED <<call_vars, thread_vars>>

\* A call of poly1305_update: the fresh scratch buffer, before the loop
PolyUpdate ==
    /\ unit.fn = "poly1305" /\ unit.pc = "ready"
    /\ \E data \in PolyData, is_last \in BOOLEAN :
          /\ unit.blocks + ((Len(data) + 15) \div 16) <= MaxPolyBlocks
          /\ unit' = PolyUnit("loop", unit.key, unit.k, unit.a, unit.blocks,
                        [NoPolyLocals EXCEPT !.data = data, !.is_last = is_last,
                                             !.len = Len(data), !.a0 = unit.a,
                                             !.buf = [i \in 1..16 |-> 0]])
    /\ UNCHANGED <<call_vars, thread_vars>>

\* One iteration of the loop `while !data.is_empty()`
PolyBlock ==
    /\ unit.fn = "poly1305" /\ unit.pc = "loop" /\ unit.data # <<>>
    /\ LET buf_len == Min(Len(unit.data), 16)
           block == SubSeq(unit.data, 1, buf_len)
           filled == poly1305_fill(unit.buf, block, unit.is_last)
           dec == poly1305_decode(unit.a, filled, buf_len < 16 /\ unit.is_last)
           w == poly1305_multiply(dec, unit.k.r, unit.k.u)
           t == poly1305_carry(w, Zero(4), 1)
       IN  unit' = [unit EXCEPT !.buf = filled, !.block = block, !.prev = unit.a,
                                !.dec = dec, !.w = w, !.t = t,
                                !.a = poly1305_wrap(t),
                                !.data = SubSeq(unit.data, buf_len + 1, Len(unit.data)),
                                !.iters = unit.iters + 1,
                                !.blocks = unit.blocks + 1]
    /\ UNCHANGED <<call_vars, thread_vars>>

\* The loop ends: poly1305_update returns
PolyUpdateReturn ==
    /\ unit.fn = "poly1305" /\ unit.pc = "loop" /\ unit.data = <<>>
    /\ unit' = PolyUnit("ready", unit.key, unit.k, unit.a, unit.blocks, NoPolyLocals)
    /\ UNCHANGED <<call_vars, thread_vars>>

\* poly1305_finish
PolyFinish ==
    /\ unit.fn = "poly1305" /\ unit.pc = "ready"
    /\ LET carried == finish_carries(unit.a)
           sel == finish_select(carried)
       IN  unit' = PolyUnit("done", unit.key, unit.k, unit.a, unit.blocks,
                        [NoPolyLocals EXCEPT !.carried = carried,
                                             !.mux = finish_mux(carried),
                                             !.sel = sel,
                                             !.tag = finish_tag(sel, unit.k.s)])
    /\ UNCHANGED <<call_vars, thread_vars>>

\* 32-bit operands of the predicates: the ends of the range, both sides of
\* the sign bit, and the constants poly1305_finish compares with
Words32 ==
    { Hex32(0, 0), Hex32(0, 1), Hex32(0, 65535), Hex32(1, 0),
      Hex32(1023, 65530), Hex32(1023, 65531), Hex32(1023, 65535),
      Hex32(32767, 65535), Hex32(32768, 0), Hex32(32768, 1),
      Hex32(65535, 0), Hex32(65535, 65534), Hex32(65535, 65535) }

\* gt!, eq! and mux_bool! applied to a pair of operands and a condition
BoolOps ==
    /\ unit.fn = "none"
    /\ \E a \in Words32, b \in Words32, c \in {Zero(2), One(2)} :
          unit' = [fn |-> "bool", pc |-> "done", a |-> a, b |-> b, c |-> c,
                   gt |-> gt(a, b), eq |-> eq(a, b), mux_bool |-> mux_bool(c, a, b)]
    /\ UNCHANGED <<call_vars, thread_vars>>

NextPoly ==
    \/ PolyInit
    \/ PolyUpdate
    \/ PolyBlock
    \/ PolyUpdateReturn
    \/ PolyFinish
    \/ BoolOps

SpecPoly == Init /\ [][NextPoly]_vars

(* ------------------------------------------------------------------ *)
(* The blocks chachapoly_auth hands to the accumulator                 *)
(* ------------------------------------------------------------------ *)

RECURSIVE poly1305_blocks(_, _)
\* What the iterations of one poly1305_update decode: the scratch buffer of
\* each and whether limb 4 gets the high bit
poly1305_blocks(data, is_last) ==
    IF data = <<>> THEN <<>>
    ELSE LET buf_len == Min(Len(data), 16)
         IN  << [buf |-> poly1305_buf(SubSeq(data, 1, buf_len), is_last),
                 high |-> ~(buf_len < 16 /\ is_last)] >>
             \o poly1305_blocks(SubSeq(data, buf_len + 1, Len(data)), is_last)

\* The three updates of chachapoly_auth
chachapoly_auth_blocks(ad, data, foot) ==
    poly1305_blocks(ad, FALSE) \o poly1305_blocks(data, FALSE)
    \o poly1305_blocks(foot, TRUE)

\* ad and data of one chachapoly_auth, cut from a byte stream (zeros, zeros
\* behind one byte, or bytes that all differ) where ad ends and where data ends
AuthInputs ==
    LET AuthStreams == { [i \in 1..48 |-> 0],
                         [i \in 1..48 |-> IF i = 1 THEN 1 ELSE 0],
                         [i \in 1..48 |-> i] }
        AuthCuts == {0, 1, 15, 16, 17, 31, 32, 33, 48}
    IN  { [ad |-> SubSeq(s, 1, i), data |-> IF j > i THEN SubSeq(s, i + 1, j) ELSE <<>>] :
              s \in AuthStreams, i \in AuthCuts, j \in AuthCuts }

AuthFeed(inp) ==
    chachapoly_auth_blocks(inp.ad, inp.data, footer(Len(inp.ad), Len(inp.data)))

\* chachapoly_auth as chachapoly_seal and chachapoly_open call it, with the
\* footer of the two lengths
AuthBlocks ==
    /\ unit.fn = "none"
    /\ \E inp \in AuthInputs :
          unit' = [fn |-> "chachapoly_auth", pc |-> "done", ad |-> inp.ad,
                   data |-> inp.data, blocks |-> AuthFeed(inp)]
    /\ UNCHANGED <<call_vars, thread_vars>>

SpecAuth == Init /\ [][AuthBlocks]_vars

(* ------------------------------------------------------------------ *)
(* Progress: a call that has begun runs on, step after step, to its    *)
(* return or its panic                                                 *)
(* ------------------------------------------------------------------ *)

\* The steps of a call that compute: the entry of xor, the iterations of its
\* loop, chachapoly_auth, eq_ct!, and the iterations of the loop of
\* poly1305_update
Computing ==
    \/ XorEnter
    \/ ChaCha20Ietf_xor
    \/ XChaCha20_xor
    \/ Authenticate
    \/ Compare
    \/ PolyBlock

\* Where one of the steps of Computing can be taken: their guards
CanCompute ==
    \/ pc \in {"enter", "auth", "cmp"}
    \/ pc = "xor" /\ pos < TargetLen
    \/ unit.fn = "poly1305" /\ unit.pc = "loop" /\ unit.data # <<>>

\* The steps of a call that pass control on
Passing ==
    \/ XorReturn
    \/ Return
    \/ PolyUpdateReturn

\* The public operations, and beside them the Poly1305 functions with the
\* loop of poly1305_update taken one iteration at a time
NextLive ==
    \/ unit.fn = "none" /\ Next
    \/ pc = "idle" /\ sealed = NoSealed /\ PolyInit
    \/ PolyUpdate
    \/ PolyBlock
    \/ PolyUpdateReturn
    \/ PolyFinish

\* The thread that runs a call is not halted for ever: a step of the call
\* that can be taken is taken. For the steps of Computing this is weak
\* fairness with its enabling condition written out as CanCompute
SpecLive ==
    /\ Init /\ [][NextLive]_vars
    /\ WF_vars(Passing)
    /\ ([]<>~CanCompute \/ []<><<Computing>>_vars)


(* ------------------------------------------------------------------ *)
(* Properties                                                          *)
(* ------------------------------------------------------------------ *)

\* The running call has returned (or panicked) and its caller has not yet gone on
Done == pc = "done"

CipherOps == {"encrypt", "encrypt_to", "decrypt", "decrypt_to"}
SealOps   == {"seal", "seal_to"}
OpenOps   == {"open", "open_to"}

\* The arguments of the running call, judged as its documentation does
KeyOk   == Len(call.key) = KeyLen(call.prim)
NonceOk == call.prim = "Poly1305" \/ Len(call.nonce) = NonceLen(call.prim)
\* The bytes the operation needs in buf
BufNeed ==
    CASE call.op \in SealOps -> call.len + CHACHAPOLY_TAG
      [] call.op = "auth"    -> POLY1305_TAG
      [] OTHER               -> call.len
BufOk == call.blen >= BufNeed

\* The events of the trace that compute a block for target t, in order
BlocksOf(t) == SelectSeq(trace, LAMBDA e : e.ev = "block" /\ e.tgt = t)
\* The counters of the blocks XORed into target t, in order
XoredInto(t) == SelectSeq(trace, LAMBDA e : e.ev = "xor" /\ e.tgt = t)
InTrace(e) == \E i \in 1..Len(trace) : trace[i] = e
\* ceil(len / BLOCK_SIZE)
BlocksFor(len) == (len + (BLOCK_SIZE - 1)) \div BLOCK_SIZE

\* C1: AEAD round trip. A seal with a 32-byte key, a nonce of the right length,
\* a plaintext of at most DATA_MAX bytes (DATA_MAX included) and room for the
\* tag returns Ok(|pt| + 16), and open of seal's output with the same ad, key
\* and nonce returns Ok(|pt|) with pt in the front of buf.
C1_RoundTrip ==
    /\ (Done /\ call.op \in SealOps /\ KeyOk /\ NonceOk /\ BufOk
            /\ call.len <= MaxOf(call.prim))
         => result = Ok(call.len + CHACHAPOLY_TAG)
    /\ (Done /\ call.op \in OpenOps /\ call.from = "intact" /\ BufOk)
         => /\ result = Ok(Len(sealed.pt))
            /\ SubSeq(buf, 1, Len(sealed.pt)) = sealed.pt

\* C2: authenticity and binding of the associated data. open/open_to of a sealed
\* message with one flipped bit in the ciphertext or the tag, or with associated
\* data of other content or other length, with seal's key and nonce, returns
\* InvalidData.
C2_TamperedIsInvalidData ==
    (Done /\ call.op \in OpenOps /\ call.from \notin {"fresh", "intact"} /\ BufOk)
      => result = InvalidData

\* C3: when the received tag differs from the recomputed one, open/open_to
\* return InvalidData, buf holds the bytes it held when the call was entered,
\* and nothing was decrypted.
C3_MismatchLeavesBuffer ==
    (Done /\ call.op \in OpenOps /\ InTrace(Event("cmp", "unequal", 0)))
      => /\ result = InvalidData
         /\ buf = entry
         /\ XoredInto("data") = <<>>

\* C4: authenticate-then-decrypt in open/open_to. The tag is computed over the
\* still-encrypted data and compared before anything else happens to the data;
\* every keystream XOR on the data uses a counter >= 1 and comes after a
\* comparison that succeeded; a failed comparison ends the call; and a call that
\* returns Ok has compared successfully and XORed every block of the data.
C4_AuthenticateThenDecrypt ==
    call.op \in OpenOps =>
      /\ \A i \in 1..Len(trace) :
            (trace[i].ev \in {"block", "xor"} /\ trace[i].tgt = "data")
              => /\ trace[i].n >= 1
                 /\ \E j \in 1..(i - 1) : trace[j] = Event("cmp", "equal", 0)
      /\ \A i \in 1..Len(trace) :
            trace[i].ev = "cmp" => \E j \in 1..(i - 1) : trace[j].ev = "auth"
      /\ \A i \in 1..Len(trace) :
            trace[i] = Event("cmp", "unequal", 0) => i = Len(trace) /\ Done
      /\ pc \in {"auth", "cmp"} =>
            SubSeq(buf, 1, dlen) =
                SubSeq(IF call.op = "open" THEN entry ELSE call.src, 1, dlen)
      /\ (Done /\ result.kind = "Ok") =>
            /\ InTrace(Event("cmp", "equal", 0))
            /\ Len(XoredInto("data")) = BlocksFor(dlen)
      /\ (Done /\ InTrace(Event("cmp", "equal", 0)) /\ result.kind # "panic") =>
            /\ result = Ok(dlen)
            /\ Len(XoredInto("data")) = BlocksFor(dlen)

\* C4, the case: an open that decrypted a non-empty message after the comparison
C4_Witness ==
    /\ Done /\ call.op \in OpenOps /\ result.kind = "Ok" /\ dlen > 0
    /\ XoredInto("data") # <<>>

\* C5: no panic on validated input. Every call of a public operation (encrypt,
\* decrypt, seal, open, their _to variants, auth) returns Ok or an error value:
\* a call that passed the validation, payloads of the permitted maximum
\* included, does not panic.
C5_NoPanicOnValidated ==
    (Done /\ call.op \in CipherOps \cup SealOps \cup OpenOps \cup {"auth"})
      => result.kind \in {"Ok", "ApiMisuse", "InvalidData"}

\* C6: no silent counter wraparound. In one call of ChaCha20Ietf::xor or
\* XChaCha20::xor the blocks are computed with the counters n, n+1, n+2, ...,
\* none above the maximum of the counter and none twice; the call that needs
\* more panics.
C6_NoCounterWraparound ==
    /\ pc = "xor" => n <= CounterMax(call.prim)
    /\ \A t \in {"data", "pkey"} :
          LET bs == BlocksOf(t)
          IN  /\ \A k \in 1..Len(bs) : bs[k].n <= CounterMax(call.prim)
              /\ \A k \in 2..Len(bs) : bs[k].n = bs[k - 1].n + 1
              /\ \A k, l \in 1..Len(bs) : k # l => bs[k].n # bs[l].n
    /\ (call.op = "xor" /\ BlocksOf("data") # <<>>) => BlocksOf("data")[1].n = call.n

\* C6, the case: a call of xor that used blocks and then panicked at the
\* maximum of the counter
C6_Witness ==
    /\ Done /\ call.op = "xor" /\ result.kind = "panic"
    /\ XoredInto("data") # <<>>
    /\ trace[Len(trace)] = Event("block", "data", CounterMax(call.prim))

\* C7: the full counter space of ChaCha20-IETF is usable. ChaCha20Ietf::xor from
\* counter n completes for every data length with n + ceil(|data|/64) <= 2^32,
\* and encrypt/decrypt succeed for every length up to and including CHACHA20_MAX.
C7_FullCounterSpace ==
    (Done /\ call.prim = "ChaCha20Ietf" /\ KeyOk /\ NonceOk) =>
      /\ (call.op = "xor" /\ call.n + BlocksFor(call.len) <= U32_LIMIT)
            => result.kind = "Ok"
      /\ (call.op \in CipherOps /\ call.len <= CHACHA20_MAX /\ BufOk)
            => result = Ok(call.len)

\* C8: counter allocation of ChachaPolyIetf. The Poly1305 key comes from block 0
\* only, the payload is XORed with blocks 1, 2, ... only; seal accepts every
\* plaintext of up to CHACHAPOLY_MAX bytes and at that length returns Ok having
\* used exactly the counters 1..2^32 - 1.
C8_CounterAllocation ==
    (call.prim = "ChachaPolyIetf" /\ call.op \in SealOps \cup OpenOps) =>
      /\ \A i \in 1..Len(trace) :
            /\ trace[i].tgt = "pkey" => trace[i].n = 0
            /\ trace[i].tgt = "data" => trace[i].n >= 1
      /\ (Done /\ call.op \in SealOps /\ KeyOk /\ NonceOk /\ BufOk
              /\ call.len <= CHACHAPOLY_MAX)
            => /\ result.kind = "Ok"
               /\ call.len = CHACHAPOLY_MAX =>
                     /\ Len(XoredInto("data")) = U32_MAX
                     /\ \A k \in 1..U32_MAX : XoredInto("data")[k].n = k

\* C9: a call that returns ApiMisuse has done nothing but validate: no block,
\* no copy, no tag, and every byte of buf is as it was when the call was entered.
C9_MisuseLeavesBuffer ==
    (Done /\ result.kind = "ApiMisuse") => (buf = entry /\ trace = <<>>)

\* C9, the case: a copying variant, with a non-empty source and a non-empty
\* buffer, rejected
C9_Witness ==
    /\ Done /\ result.kind = "ApiMisuse"
    /\ call.op \in {"encrypt_to", "decrypt_to", "seal_to", "open_to"}
    /\ call.src # <<>> /\ call.blen > 0

\* The messages of the defects of the running call among key length, nonce
\* length and buffer size
Defects ==
    (IF KeyOk THEN {} ELSE {"Invalid key length"})
    \cup (IF NonceOk THEN {} ELSE {"Invalid nonce length"})
    \cup (IF BufOk THEN {} ELSE {"Buffer is too small"})

\* The payload of the running call passes the size checks that precede the
\* check of the buffer
PayloadOk ==
    call.op = "auth"
    \/ (/\ call.len <= MaxOf(call.prim)
        /\ call.op \in OpenOps => call.len >= CHACHAPOLY_TAG)

\* C10: the API-misuse matrix. For every primitive and operation a key of a
\* length other than 32 gives ApiMisuse("Invalid key length"), a nonce of the
\* wrong length (the key being right) ApiMisuse("Invalid nonce length"), a
\* too-small buffer (key and nonce being right, the payload one the operation
\* takes) ApiMisuse("Buffer is too small"); every combination of the three
\* defects on such a payload fails with ApiMisuse and the message of one of the
\* defects present, and no call with one of the defects returns Ok.
C10_MisuseMatrix ==
    (Done /\ call.op # "xor") =>
      /\ ~KeyOk => result = ApiMisuse("Invalid key length")
      /\ (KeyOk /\ ~NonceOk) => result = ApiMisuse("Invalid nonce length")
      /\ (KeyOk /\ NonceOk /\ PayloadOk /\ ~BufOk)
            => result = ApiMisuse("Buffer is too small")
      /\ (PayloadOk /\ Defects # {})
            => (result.kind = "ApiMisuse" /\ result.msg \in Defects)
      /\ Defects # {} => result.kind # "Ok"

\* C10, the case: a call with all three defects
C10_Witness ==
    /\ Done /\ ~KeyOk /\ ~NonceOk /\ ~BufOk
    /\ result = ApiMisuse("Invalid key length")


\* C11: short input to open. With a key and a nonce of the right lengths, open
\* and open_to of an input shorter than the 16-byte tag return InvalidData (not
\* ApiMisuse), whatever the buffer.
C11_ShortInputIsInvalidData ==
    (Done /\ call.op \in OpenOps /\ KeyOk /\ NonceOk /\ call.len < CHACHAPOLY_TAG)
      => result = InvalidData

\* C11, the case: a 15-byte input, in a buffer that is too small as well
C11_Witness ==
    /\ Done /\ call.op \in OpenOps /\ KeyOk /\ NonceOk
    /\ call.len = CHACHAPOLY_TAG - 1 /\ call.blen < call.len
    /\ result = InvalidData

\* C12: oversized input to open. With a key and a nonce of the right lengths
\* and a buffer that is large enough, open and open_to return InvalidData when
\* the ciphertext, tag included, is longer than DATA_MAX + 16, and reject no
\* input of at most DATA_MAX + 16 bytes for its size.
C12_OversizedIsInvalidData ==
    (Done /\ call.op \in OpenOps /\ KeyOk /\ NonceOk /\ BufOk) =>
      /\ call.len > MaxOf(call.prim) + CHACHAPOLY_TAG => result = InvalidData
      /\ call.len <= MaxOf(call.prim) + CHACHAPOLY_TAG
            => result # ApiMisuse("Too much data")

\* C13: XChaCha20 and XChachaPoly have no cap but usize::MAX: encrypt, decrypt,
\* seal and open (and their _to variants) of these two never return
\* ApiMisuse("Too much data").
C13_NoCapForX ==
    (Done /\ call.prim \in XPrims /\ call.op \in CipherOps \cup SealOps \cup OpenOps)
      => result # ApiMisuse("Too much data")

\* C14: open_to into a buffer of exactly the plaintext length. For the message
\* of a successful seal, unchanged, with seal's ad, key and nonce and a buffer
\* of |c| - 16 bytes, open_to returns Ok(|c| - 16) and the buffer holds the
\* plaintext.
C14_OpenToExactBuffer ==
    (Done /\ call.op = "open_to" /\ call.from = "intact"
          /\ call.blen = call.len - CHACHAPOLY_TAG)
      => (result = Ok(call.len - CHACHAPOLY_TAG) /\ buf = sealed.pt)


\* The input of the running call of a cipher operation or of xor
CipherInput ==
    IF call.op \in {"encrypt_to", "decrypt_to"} THEN call.src
    ELSE SubSeq(entry, 1, call.len)

\* C16: the keystream XOR is its own inverse. The output of a successful xor,
\* encrypt or decrypt (and _to variants), put through xor again with the same
\* key, nonce and start counter, is the input again; and encrypt and decrypt
\* are the same function of (key, nonce, input), namely xor from counter 0.
C16_XorSelfInverse ==
    (Done /\ call.op \in CipherOps \cup {"xor"} /\ result.kind = "Ok") =>
      /\ xor(call.prim, call.key, call.nonce, call.n, SubSeq(buf, 1, call.len))
            = [panic |-> FALSE, data |-> CipherInput]
      /\ call.op \in CipherOps =>
            SubSeq(buf, 1, call.len)
                = xor(call.prim, call.key, call.nonce, 0, CipherInput).data

\* C16, the case: an encryption of a length that is no multiple of 64 and
\* takes more than one block
C16_Witness ==
    /\ Done /\ call.op \in CipherOps /\ result.kind = "Ok"
    /\ call.len > BLOCK_SIZE /\ call.len % BLOCK_SIZE # 0
    /\ SubSeq(buf, 1, call.len) # CipherInput


\* The plaintext seal or seal_to is called with
SealInput == IF call.op = "seal_to" THEN call.src ELSE SubSeq(entry, 1, call.len)

\* C15: the in-place and the copying variants agree. What seal and seal_to
\* return and write is one function of (plaintext, ad, key, nonce, |buf|): the
\* error of the validation, or plaintext length + 16 and ciphertext followed by
\* tag. What open and open_to return is one function of (message, ad, key,
\* nonce, |buf|): the error of the validation, or the plaintext of the sealed
\* message and its length, or InvalidData. The buffer of open holds the message,
\* the buffer of open_to has room for the plaintext.
C15_VariantsAgree ==
    /\ (Done /\ call.op \in SealOps) =>
          LET v == vfy_seal(Len(call.key), Len(call.nonce), call.len, call.blen,
                            KeyLen(call.prim), NonceLen(call.prim), MaxOf(call.prim))
          IN  IF v # Pass THEN result = v
              ELSE LET r == chachapoly_seal(call.prim, SealInput, call.ad, call.key,
                                            call.nonce)
                   IN  IF r.panic THEN result.kind = "panic"
                       ELSE /\ result = Ok(call.len + CHACHAPOLY_TAG)
                            /\ SubSeq(buf, 1, call.len + CHACHAPOLY_TAG) = r.data \o r.tag
    /\ (/\ Done /\ call.op \in OpenOps
        /\ call.blen >= IF call.op = "open" \/ call.len < CHACHAPOLY_TAG
                        THEN call.len ELSE call.len - CHACHAPOLY_TAG) =>
          LET v == vfy_open(Len(call.key), Len(call.nonce), call.len, call.len,
                            KeyLen(call.prim), NonceLen(call.prim), MaxOf(call.prim))
          IN  IF v # Pass THEN result = v
              ELSE IF call.from = "intact"
              THEN /\ result = Ok(call.len - CHACHAPOLY_TAG)
                   /\ SubSeq(buf, 1, call.len - CHACHAPOLY_TAG) = sealed.pt
              ELSE result = InvalidData



\* s followed by zero bytes up to the next multiple of 16
Pad16(s) == s \o [i \in 1..((16 - (Len(s) % 16)) % 16) |-> 0]

\* The first 32 bytes of keystream block 0 of (key, nonce)
Block0Key ==
    SubSeq(keystream_block(call.prim,
                           IF call.prim \in XPrims
                           THEN hchacha20_hash(call.key, SubSeq(call.nonce, 1, 16))
                           ELSE call.key,
                           call.nonce, 0), 1, 32)

\* The one-shot MAC of aad || pad || ciphertext || pad || LE64(|aad|) || LE64(|ciphertext|)
OneShotTag(ct) ==
    poly1305_mac(Pad16(call.ad) \o Pad16(ct)
                   \o le_bytes64(Len(call.ad)) \o le_bytes64(Len(ct)),
                 Block0Key)

\* C18: the tag seal writes, and the tag open recomputes, is the one-shot
\* Poly1305 MAC, under the first 32 bytes of keystream block 0, of
\* aad || zero padding to 16 || ciphertext || zero padding to 16 ||
\* LE64(|aad|) || LE64(|ciphertext|).
C18_TagDefinition ==
    /\ (Done /\ call.op \in SealOps /\ result.kind = "Ok") =>
          SubSeq(buf, call.len + 1, call.len + CHACHAPOLY_TAG)
              = OneShotTag(SubSeq(buf, 1, call.len))
    /\ (pc = "cmp" /\ call.op \in OpenOps) => vfy_tag = OneShotTag(SubSeq(buf, 1, dlen))

\* C18, the case: a tag over additional data and a ciphertext that both need
\* padding
C18_Witness ==
    /\ Done /\ call.op \in SealOps /\ result.kind = "Ok"
    /\ Len(call.ad) % 16 # 0 /\ call.len % 16 # 0
    /\ Len(Pad16(call.ad)) = 16


\* C19: the output lengths. A successful seal or seal_to returns the plaintext
\* length + 16, with the ciphertext in the first bytes of buf, the 16-byte tag
\* right after it and the rest of buf as it was; a successful open or open_to
\* returns the input length - 16. The output of sealing an empty plaintext is
\* the 16-byte tag alone, and open of that output returns Ok(0).
C19_OutputLengths ==
    /\ (Done /\ call.op \in SealOps /\ result.kind = "Ok") =>
          LET r == chachapoly_seal(call.prim, SealInput, call.ad, call.key, call.nonce)
          IN  /\ result.len = call.len + CHACHAPOLY_TAG
              /\ Len(r.tag) = CHACHAPOLY_TAG
              /\ SubSeq(buf, 1, call.len) = r.data
              /\ SubSeq(buf, call.len + 1, call.len + CHACHAPOLY_TAG) = r.tag
              /\ \A i \in (call.len + CHACHAPOLY_TAG + 1)..Len(buf) :
                     buf[i] = IF call.op = "seal" THEN entry[i] ELSE 170
              /\ call.len = 0 => (result.len = CHACHAPOLY_TAG
                                  /\ SubSeq(buf, 1, result.len) = r.tag)
    /\ (Done /\ call.op \in OpenOps /\ result.kind = "Ok") =>
          result.len = call.len - CHACHAPOLY_TAG
    /\ (/\ Done /\ call.op = "open" /\ call.from = "intact" /\ sealed.pt = <<>>
        /\ KeyOk /\ NonceOk /\ call.blen >= call.len) =>
          (call.len = CHACHAPOLY_TAG /\ result = Ok(0))

\* C19, the case: the 16-byte output of sealing an empty plaintext, opened
C19_Witness ==
    /\ Done /\ call.op = "open" /\ call.from = "intact"
    /\ sealed.pt = <<>> /\ Len(sealed.msg) = CHACHAPOLY_TAG
    /\ result = Ok(0)



\* C20: the constant-time comparison of the received and the recomputed tag.
\* eq_ct! is true iff the two have the same length and the same byte at every
\* index; for equal lengths it takes one loop step per index whatever the
\* position or existence of a difference; for different lengths it is false
\* after no step. chachapoly_open decrypts iff it says true.
C20_ConstantTimeCompare ==
    /\ (pc = "cmp") =>
          /\ eq_ct_run(ReceivedTag, vfy_tag)
                = [eq    |-> /\ Len(ReceivedTag) = Len(vfy_tag)
                             /\ \A i \in 1..Len(vfy_tag) : ReceivedTag[i] = vfy_tag[i],
                   steps |-> Len(vfy_tag)]
          /\ Len(vfy_tag) = CHACHAPOLY_TAG
          /\ \A k \in 0..(CHACHAPOLY_TAG - 1) :
                /\ eq_ct_run(SubSeq(ReceivedTag, 1, k), vfy_tag)
                      = [eq |-> FALSE, steps |-> 0]
                /\ eq_ct_run(SubSeq(ReceivedTag, 1, k), SubSeq(vfy_tag, 1, k)).steps = k
    /\ (Done /\ call.op \in OpenOps /\ InTrace(Event("auth", "tag", 0))) =>
          /\ InTrace(Event("cmp", "equal", 0)) <=> ReceivedTag = vfy_tag
          /\ InTrace(Event("cmp", "unequal", 0)) <=> ReceivedTag # vfy_tag

\* C20, the case: a received tag that differs from the recomputed one in its
\* last byte only
C20_Witness ==
    /\ pc = "cmp" /\ call.from = "tag_last"
    /\ ReceivedTag[CHACHAPOLY_TAG] # vfy_tag[CHACHAPOLY_TAG]
    /\ SubSeq(ReceivedTag, 1, CHACHAPOLY_TAG - 1) = SubSeq(vfy_tag, 1, CHACHAPOLY_TAG - 1)


\* What the call thread t runs returns and leaves in its buffer, as a function
\* of the call's own arguments
OwnResult(c) ==
    IF c.op = "auth"
    THEN IF vfy_auth(Len(c.key), POLY1305_TAG) = Pass
         THEN [result |-> Ok(POLY1305_TAG), buf |-> poly1305_mac(c.data, c.key)]
         ELSE [result |-> vfy_auth(Len(c.key), POLY1305_TAG),
               buf    |-> FreshBuf(POLY1305_TAG)]
    ELSE [result |-> Ok(Len(c.data)),
          buf    |-> xor("ChaCha20Ietf", c.key, c.nonce, 0, c.data).data]

\* C17: statelessness under any history and interleaving. Whatever calls the
\* two threads ran before and whatever the other thread runs alongside, a call
\* that has returned gives the result and the output that are a function of
\* its own arguments; two Poly1305 auth calls with the same (key, data), side
\* by side or one after the other, give the same tag.
C17_Stateless ==
    /\ \A t \in Threads :
          threads[t].pc = "done" =>
             [result |-> threads[t].result, buf |-> threads[t].buf] = OwnResult(threads[t])
    /\ \A t, o \in Threads :
          (/\ threads[t].pc = "done" /\ threads[o].pc = "done"
           /\ threads[t].op = "auth" /\ threads[o].op = "auth"
           /\ threads[t].key = threads[o].key /\ threads[t].data = threads[o].data) =>
             (threads[t].buf = threads[o].buf /\ threads[t].result = threads[o].result)
    /\ \A t \in Threads :
          (/\ threads[t].pc = "done" /\ threads[t].op = "auth"
           /\ threads[t].result.kind = "Ok"
           /\ threads[t].key = last_auth.key /\ threads[t].data = last_auth.data) =>
             threads[t].buf = last_auth.tag

\* C17, the case: an auth of two blocks has returned the tag an earlier call
\* with the same (key, data) returned, while the other thread is in the middle
\* of an auth under another key
C17_Witness ==
    \E t, o \in Threads :
       /\ threads[t].pc = "done" /\ threads[t].op = "auth"
       /\ threads[t].result.kind = "Ok" /\ Len(threads[t].data) > 16
       /\ last_auth = [key |-> threads[t].key, data |-> threads[t].data,
                       tag |-> threads[t].buf]
       /\ threads[o].pc = "update" /\ threads[o].pos = 16
       /\ threads[o].key # threads[t].key


\* The key the blocks of call are computed with: key, or the subkey of XChaCha20
BlockKey ==
    IF call.prim \in XPrims THEN hchacha20_hash(call.key, SubSeq(call.nonce, 1, 16))
    ELSE call.key

InputChecks ==
    << [fails |-> ~KeyOk,   error |-> ApiMisuse("Invalid key length")],
       [fails |-> ~NonceOk, error |-> ApiMisuse("Invalid nonce length")],
       [fails |-> call.op # "auth" /\ call.len > MaxOf(call.prim),
        error |-> ApiMisuse("Too much data")],
       [fails |-> call.op \in OpenOps /\ call.len < CHACHAPOLY_TAG,
        error |-> InvalidData],
       [fails |-> ~BufOk,   error |-> ApiMisuse("Buffer is too small")] >>

\* The checks that fail, by their place in the order
FailingChecks == {i \in 1..Len(InputChecks) : InputChecks[i].fails}

\* C26: validation precedence. The input checks are evaluated in the order key
\* length, nonce length, payload cap, for open only input shorter than the tag,
\* buffer size, and the first check that fails alone determines the returned
\* error; a call no check of which fails is not rejected for its input.
C26_ValidationPrecedence ==
    (Done /\ call.op \in CipherOps \cup SealOps \cup OpenOps \cup {"auth"}) =>
       /\ FailingChecks # {} =>
             /\ \E i \in FailingChecks :
                   /\ \A j \in FailingChecks : i <= j
                   /\ result = InputChecks[i].error
             /\ trace = <<>>
       /\ FailingChecks = {} => result.kind # "ApiMisuse"

\* C26, the case: open with a key and a nonce of the right lengths, an input
\* of 15 bytes and a buffer too small for it
C26_Witness ==
    /\ Done /\ call.op \in OpenOps /\ KeyOk /\ NonceOk
    /\ call.len = CHACHAPOLY_TAG - 1 /\ ~BufOk
    /\ result = InvalidData


\* The length of the output prefix a successful call of the running operation
\* reports
OutputPrefix ==
    CASE call.op \in SealOps -> call.len + CHACHAPOLY_TAG
      [] call.op \in OpenOps -> call.len - CHACHAPOLY_TAG
      [] call.op = "auth"    -> POLY1305_TAG
      [] OTHER               -> call.len

\* C27: the write footprint on success. A successful operation returns the
\* length of its output prefix and leaves every byte of buf after that prefix
\* as it was when the call was entered: after plaintext + tag for seal and
\* seal_to, the 16 tag bytes and all later bytes for the in-place open, after
\* len for encrypt and decrypt, after the 16 tag bytes for Poly1305 auth with a
\* longer buffer. The arguments key, nonce, ad and source stay as they are
\* while the call runs.
C27_WriteFootprint ==
    /\ [](/\ (Done /\ result.kind = "Ok" /\ call.op # "xor") =>
               /\ result.len = OutputPrefix
               /\ Len(buf) = Len(entry)
               /\ \A i \in (OutputPrefix + 1)..Len(buf) : buf[i] = entry[i]
          /\ (Done /\ result.kind = "Ok" /\ call.op = "open") =>
               SubSeq(buf, OutputPrefix + 1, call.len)
                  = SubSeq(entry, OutputPrefix + 1, call.len))
    /\ [][(pc # "idle" /\ pc' # "idle") => call' = call]_vars

\* C27, the case: Poly1305 auth has written the tag into a buffer longer than
\* 16 bytes
C27_Witness ==
    /\ Done /\ call.op = "auth" /\ result = Ok(POLY1305_TAG)
    /\ call.blen > POLY1305_TAG
    /\ SubSeq(buf, 1, POLY1305_TAG) # SubSeq(entry, 1, POLY1305_TAG)


\* C21: the feed-forward of chacha20_block is word by word. For every state
\* after the rounds and every counter n, output word 12 is
\* (state[12] + low32(n)) mod 2^32 and output word 13 is
\* (state[13] + high32(n)) mod 2^32: no carry out of word 12 changes word 13.
C21_WordwiseFeedForward ==
    (unit.fn = "chacha20_block" /\ unit.pc = "final") =>
       /\ unit.buf = chacha20_block(unit.key, unit.nonce, unit.n)
       /\ SubSeq(unit.buf, 49, 52)
             = write32_le(add32(unit.state[13], SubSeq(unit.n, 1, 2)))
       /\ SubSeq(unit.buf, 53, 56)
             = write32_le(add32(unit.state[14], SubSeq(unit.n, 3, 4)))

(* ---- Poly1305: blocks, limbs and the final reduction ---- *)

\* A word widened to 17 digits (272 bits): room for the product of two
\* field elements, so that nothing computed on such words wraps
Wide(x) == x \o Zero(17 - Len(x))

\* The number that five 26-bit limbs stand for
LimbsValue(l) ==
    addW(addW(addW(addW(Wide(l[1]), shlW(Wide(l[2]), 26)), shlW(Wide(l[3]), 52)),
              shlW(Wide(l[4]), 78)), shlW(Wide(l[5]), 104))

\* The number that bytes stand for, little-endian
BytesValue(bs) ==
    LET byte(j) == IF j <= Len(bs) THEN bs[j] ELSE 0
    IN  Strict([i \in 1..17 |-> byte((2 * i) - 1) + (256 * byte(2 * i))])

\* The low 16 bytes of a wide word, little-endian
LowBytes(x) ==
    Strict([j \in 1..16 |-> IF j % 2 = 1 THEN x[(j + 1) \div 2] % 256
                                         ELSE x[j \div 2] \div 256])

Low130(x) ==
    Strict([i \in 1..17 |-> IF i <= 8 THEN x[i] ELSE IF i = 9 THEN x[9] % 4 ELSE 0])

Times5(x) == addW(shlW(x, 2), x)

\* 2^130 = 5 modulo 2^130 - 5
Fold130(x) == addW(Low130(x), Times5(shrW(x, 130)))

\* x modulo 2^130 - 5, the residue below 2^130 - 5
ModP(x) ==
    LET y == Fold130(Fold130(Fold130(x)))
        z == addW(y, Lit(5, 17))
    IN  IF shrW(z, 130) = Zero(17) THEN y ELSE Low130(z)

\* x >= 2^130 - 5
AtLeastP(x) == shrW(addW(x, Lit(5, 17)), 130) # Zero(17)

\* The number RFC 8439 takes a block for: its bytes and one bit behind them,
\* which for a block the code treats as full is bit 128
TrueBlock(block, short_last) ==
    addW(BytesValue(block),
         shlW(Lit(1, 17), IF short_last THEN 8 * Len(block) ELSE 128))

Below(x, bits) == shrW(x, bits) = Zero(Len(x))

AfterBlock == unit.fn = "poly1305" /\ unit.pc = "loop" /\ unit.iters > 0

ShortLast == Len(unit.block) < 16 /\ unit.is_last

\* C23: after every iteration of poly1305_update the scratch buffer holds the
\* block's bytes and zeros behind them, except the single byte 0x01 at index
\* len of a short block with is_last; exactly that block gets no high bit in
\* limb 4 and every other block gets the high bit 0x01000000, so that the limbs
\* added to the accumulator are the block's bytes plus one marker bit, bit
\* 8 * len or bit 128; a call with empty data runs no iteration and leaves the
\* accumulator alone.
C23_BlockMarker ==
    /\ AfterBlock =>
          /\ \A i \in 1..16 :
                unit.buf[i] = IF i <= Len(unit.block) THEN unit.block[i]
                              ELSE IF ShortLast /\ i = Len(unit.block) + 1 THEN 1 ELSE 0
          /\ (subW(unit.dec[5], unit.prev[5])[2] >= 256) <=> ~ShortLast
          /\ LimbsValue(unit.dec)
                = addW(LimbsValue(unit.prev), TrueBlock(unit.block, ShortLast))
    /\ (unit.fn = "poly1305" /\ unit.pc = "loop" /\ unit.len = 0) =>
          /\ unit.iters = 0
          /\ unit.data = <<>>
          /\ unit.a = unit.a0

\* A short last block after a full one: the scratch buffer held the sixteen
\* bytes 0xFF of the block before
C23_Witness ==
    /\ AfterBlock /\ unit.iters = 2 /\ ShortLast
    /\ Len(unit.block) = 3 /\ unit.buf[4] = 1 /\ unit.buf[16] = 0

\* The words of poly1305_update's loop widened by 32 bits
Widened(ws) == Strict([i \in 1..Len(ws) |-> AsU64(ws[i])])

\* C24: after each block a[0], a[2], a[3], a[4] are below 2^26 and a[1] is
\* below 2^27; adding the block's limbs, the sums w with their carries, the
\* top carry times 5 and u = 5 * r come out the same with wider words, that
\* is, nothing wraps; and the accumulator is congruent modulo 2^130 - 5 to
\* (accumulator before + block) * r.
C24_LimbBounds ==
    AfterBlock =>
       LET wide_w == poly1305_multiply(Widened(unit.dec), Widened(unit.k.r),
                                       Widened(unit.k.u))
           wide_t == poly1305_carry(wide_w, Zero(6), 1)
           limbs == poly1305_decode(ZeroAcc, unit.buf, ShortLast)
           c == AsU32(unit.t[6]) \o <<0>>
           y0 == addW(unit.t[1] \o <<0>>, Times5(c))
       IN  /\ \A i \in {1, 3, 4, 5} : Below(unit.a[i], 26)
           /\ Below(unit.a[2], 27)
           /\ \A i \in 1..5 :
                 AsU64(unit.dec[i]) = addW(AsU64(unit.prev[i]), AsU64(limbs[i]))
           /\ \A i \in 2..5 : AsU64(unit.k.u[i]) = Times5(AsU64(unit.k.r[i]))
           /\ wide_w = Widened(unit.w)
           /\ \A i \in 1..5 : wide_t[i] = unit.t[i]
           /\ wide_t[6] = AsU64(unit.t[6])
           /\ unit.t[6][3] = 0 /\ unit.t[6][4] = 0
           /\ Times5(c)[3] = 0
           /\ y0[3] = 0
           /\ addW(unit.t[2] \o <<0>>, shrW(y0, 26))[3] = 0
           /\ ModP(LimbsValue(unit.a))
                 = ModP(mulW(LimbsValue(unit.dec), LimbsValue(unit.k.r)))

\* A block whose product leaves a top carry to wrap around, and a limb 1
\* that keeps a 27th bit
C24_Witness ==
    /\ AfterBlock
    /\ unit.t[6] # Zero(4)
    /\ ~Below(unit.dec[2], 26)

\* C25: poly1305_finish's carry chain and its conditional subtraction leave
\* all five limbs below 2^26 and the value below 2^130 - 5, congruent to the
\* accumulator; the tag is the little-endian (value + s) modulo 2^128.
C25_FinalReduction ==
    (unit.fn = "poly1305" /\ unit.pc = "done") =>
        /\ \A i \in 1..5 : Below(unit.carried[i], 26) /\ Below(unit.sel[i], 26)
        /\ ModP(LimbsValue(unit.carried)) = ModP(LimbsValue(unit.a))
        /\ ~AtLeastP(LimbsValue(unit.sel))
        /\ LimbsValue(unit.sel) = ModP(LimbsValue(unit.a))
        /\ unit.tag = LowBytes(addW(LimbsValue(unit.sel),
                          Wide(unit.k.s[1] \o unit.k.s[2] \o unit.k.s[3] \o unit.k.s[4])))

\* A finish whose carried accumulator is not canonical: the conditional
\* subtraction takes place
C25_Witness ==
    /\ unit.fn = "poly1305" /\ unit.pc = "done"
    /\ AtLeastP(LimbsValue(unit.carried))
    /\ unit.sel # unit.carried

Bool32(b) == IF b THEN One(2) ELSE Zero(2)

\* C30: eq!(a, b) is 1 if a = b and 0 otherwise, gt!(a, b) is 1 if a > b as
\* unsigned numbers and 0 otherwise, mux_bool!(c, x, y) is x for c = 1 and y
\* for c = 0; the mux of poly1305_finish is 1 exactly when the carried
\* accumulator is at least 2^130 - 5.
C30_BranchFree ==
    /\ unit.fn = "bool" =>
          /\ unit.eq = Bool32(unit.a = unit.b)
          /\ unit.gt = Bool32(unit.a[2] > unit.b[2]
                              \/ (unit.a[2] = unit.b[2] /\ unit.a[1] > unit.b[1]))
          /\ unit.mux_bool = IF unit.c = One(2) THEN unit.a ELSE unit.b
    /\ (unit.fn = "poly1305" /\ unit.pc = "done") =>
          unit.mux = Bool32(AtLeastP(LimbsValue(unit.carried)))

\* Operands on the two sides of the sign bit
C30_Witness ==
    /\ unit.fn = "bool"
    /\ unit.a = Hex32(32768, 0) /\ unit.b = Hex32(32767, 65535)
    /\ unit.gt = One(2) /\ unit.eq = Zero(2) /\ unit.c = One(2)

(* ---- The input encoding of the MAC ---- *)

AuthDone == unit.fn = "chachapoly_auth" /\ unit.pc = "done"

\* C28: the blocks chachapoly_auth decodes for ad, data and the footer of
\* their lengths determine ad and data: no other pair of the inputs, whether
\* it moves the boundary between ad and data or differs in trailing zero
\* bytes, is handed to the accumulator as the same sequence of blocks.
C28_InjectiveEncoding ==
    AuthDone =>
       /\ unit.blocks = AuthFeed([ad |-> unit.ad, data |-> unit.data])
       /\ \A other \in AuthInputs :
              AuthFeed(other) = unit.blocks
                 => other.ad = unit.ad /\ other.data = unit.data

\* An input whose blocks before the footer are also those of an input with
\* the boundary moved and of an input that is one trailing zero byte shorter
C28_Witness ==
    /\ AuthDone
    /\ Len(unit.ad) = 16 /\ Len(unit.data) = 16 /\ unit.ad[1] = 1
    /\ \E o1 \in AuthInputs, o2 \in AuthInputs :
          /\ Len(o1.ad) = 32 /\ Len(o2.ad) = 15
          /\ Len(AuthFeed(o1)) = 3 /\ Len(AuthFeed(o2)) = 3
          /\ \A k \in 1..2 : /\ AuthFeed(o1)[k] = unit.blocks[k]
                              /\ AuthFeed(o2)[k] = unit.blocks[k]

(* ---- Termination ---- *)

\* One iteration of the loop of xor: it panics on the counter, or it takes
\* the next min(remaining, 64) >= 1 bytes
XorIteration ==
    (pc = "xor" /\ pos < TargetLen /\ trace' # trace) =>
        \/ pc' = "done" /\ result'.kind = "panic"
        \/ /\ pos' - pos = (IF TargetLen - pos < BLOCK_SIZE THEN TargetLen - pos
                          ELSE BLOCK_SIZE)
           /\ pos' - pos >= 1
           /\ Len(BlocksOf(tgt))' = Len(BlocksOf(tgt)) + 1

\* One iteration of the loop of poly1305_update takes the next
\* min(remaining, 16) >= 1 bytes
PolyIteration ==
    (unit.fn = "poly1305" /\ unit.pc = "loop" /\ unit'.pc = "loop") =>
        /\ unit'.iters = unit.iters + 1
        /\ Len(unit.data) - Len(unit'.data)
              = (IF Len(unit.data) < 16 THEN Len(unit.data) ELSE 16)
        /\ Len(unit.data) - Len(unit'.data) >= 1

\* The loops at their end, and a loop left by a panic
IterationCount ==
    /\ (pc = "xor" /\ pos = TargetLen) => Len(BlocksOf(tgt)) = BlocksFor(TargetLen)
    /\ (pc = "xor" /\ pos < TargetLen) => Len(BlocksOf(tgt)) < BlocksFor(TargetLen)
    /\ (Done /\ result.kind = "panic") => Len(BlocksOf(tgt)) <= BlocksFor(TargetLen)
    /\ (unit.fn = "poly1305" /\ unit.pc = "loop") =>
          /\ unit.iters <= (unit.len + 15) \div 16
          /\ unit.data = <<>> <=> unit.iters = (unit.len + 15) \div 16

\* C29: every iteration of the loops of ChaCha20Ietf::xor, XChaCha20::xor and
\* poly1305_update takes min(remaining, block size) >= 1 bytes, a loop that
\* is not left by a panic ends after exactly ceil(len / 64), or ceil(len / 16),
\* iterations, and every operation that was called comes to its end with a
\* result or a panic, as every call of poly1305_update returns.
C29_Termination ==
    /\ [][XorIteration /\ PolyIteration]_vars
    /\ []IterationCount
    /\ (pc # "idle") ~> (Done /\ result # NoResult)
    /\ (unit.fn = "poly1305" /\ unit.pc = "loop") ~> (unit.fn = "poly1305" /\ unit.pc = "ready")

\* A sealing that came to its end after two loops of xor, one of two
\* iterations, and the three loops of poly1305_update
C29_Witness ==
    /\ Done /\ call.op = "seal" /\ result.kind = "Ok"
    /\ Len(BlocksOf("data")) = 2 /\ Len(BlocksOf("pkey")) = 1

=============================================================================
